---- MODULE Spec2Model ----
(***************************************************************************)
(* Model of the embedding index construction of WDoc                       *)
(* (src/WDoc/utils/embeddings.py): the search patch faiss_hotfix, the      *)
(* merge path merge_from / iter_merge, and the loader and saver worker     *)
(* pools of load_embeddings.                                               *)
(*                                                                         *)
(* The module holds several specifications over one set of variables:      *)
(*   SpecSearch  the patched search of faiss_hotfix                        *)
(* A specification leaves the variables of the other parts at their idle   *)
(* values.                                                                 *)
(***************************************************************************)
EXTENDS Integers, Sequences, FiniteSets, TLC

VARIABLES
    \* ----- faiss_hotfix: one call of the patched search
    s_pc,        \* "call" | "retry" | "returned" | "raised" | "idle"
    ntotal,      \* number of vectors held by the underlying index
    ranking,     \* the index positions in increasing distance to the query
    ok_ids,      \* keys of index_to_docstore_id captured by faiss_hotfix
    k,           \* the number of neighbours asked for
    trial,       \* retry counter of the wrapper
    diff,        \* k minus the number of valid ids of the latest attempt
    trial_ids,   \* the filtered ids of the latest attempt
    n_asked,     \* how many candidates the latest underlying search asked for
    s_path,      \* "first" | "retry": the return statement that was taken
    s_ret,       \* [scores |-> shape, ids |-> sequence] returned, or <<>>
    \* ----- load_embeddings: the orchestrating thread (dispatcher)
    d_pc,            \* position of the dispatcher in load_embeddings
    d_err,           \* the exception that ended load_embeddings, or "none"
    db,              \* the merged index being built (None before the first)
    merged_dbs,      \* partial results still to merge
    failed_to_merge, \* documents iter_merge could not add
    m_fault,         \* the error the library raises during this merge step
    m_in,            \* the two shards handed to the merge path (for the claims)
    \* ----- load_embeddings: the loader pool and the saver pool
    pool,            \* "loader" | "saver": the pool this run models
    docs,            \* content_hash of each document, in dispatch order
    files,           \* content hashes with a shard file on disk
    list_of_files,   \* the shard files listed before dispatching (line 308)
    d_i,             \* loop index of the dispatcher's current loop
    to_embed,        \* documents (indexes of docs) left to embed
    sent,            \* per document, how many times it was put on a queue
    lq,              \* the worker whose inbound queue the pending put targets
    qin,             \* inbound queue of each worker
    qout,            \* outbound queue of each worker
    w_pc,            \* "run" | "saving" | "stopping" | "done" | "dead" | "hung"
    w_file,          \* per saver, the content hash of the path it is writing
    w_db,            \* the running shard of each loader worker
    start_stopping_threads, \* time waited in the join loop, in units of timeout
    out_vals,        \* the acknowledgments read after the join loop
    log,             \* the kinds of message printed by red()
    poll_tick,       \* parity of the number of empty polls so far
    n_faults,        \* worker faults injected so far
    \* ----- the cost check of load_embeddings / load_saved_embeddings
    c_pc,            \* position in the cost check and what follows it
    cost_in,         \* the inputs of the call the cost check depends on
    price,           \* the price per token the check settled on
    ans,             \* the answer typed at the prompt
    c_events,        \* prompt, provider call, saver start, save: in order
    \* ----- embed_one_batch under the parallel map of load_saved_embeddings
    e_docs,          \* len(docs)
    e_batch,         \* per batch thread: position, trial, calls made, log
    \* ----- the expiration sweep of load_embeddings
    x_pc,            \* "start" | "sweep" | "done" | "raised"
    x_in,            \* WDOC_EXPIRE_CACHE_DAYS and the listing of the two dirs
    x_fs,            \* the entries still on disk, per directory
    x_loop,          \* dir and entry reached, n_total, n_cleaned, space_retrieved
    x_report,        \* what whi() printed for each directory swept
    x_err,           \* the exception raised by the sweep, or "none"
    \* ----- the cache namespace computed by load_embeddings
    n_pc,            \* "parse" | "local_file" | "private" | "done"
    n_cfg,           \* embed_model, embed_instruct, private, and the disk
    backend,         \* embed_model.split("/", 1)[0]
    embed_model,     \* the model identifier without its backend
    embed_model_str, \* the namespace
    \* ----- one call of semantic_batching (src/WDoc/utils/tasks/query.py)
    b_pc,            \* position in semantic_batching, "returned" or the exception
    texts,           \* the parameter texts, rebound to the deduplicated list
    n_embed_query,   \* calls of embedding_engine.embed_query made so far
    embeds,          \* the embedding of each text: its coordinate on a line
    order,           \* leaves_list(Z): the indexes of texts in leaf order
    cluster_labels,  \* the cluster label of each text
    text_sizes,      \* get_tkn_length of each text
    buckets,         \* the buckets built so far, then the return value
    b_err,           \* the statement that raised, or "none"
    \* ----- one call of refilter_docs or of parse_eval_output (query.py)
    v_pc,            \* "start" | "loop" | "end" | "returned" | the exception
    v_in,            \* the function called, its evaluations or its output
    v_ie,            \* documents the loop of refilter_docs has handled
    filtered_docs,   \* indexes of the documents kept so far
    v_ret,           \* the value returned, or <<>>
    \* ----- one call of score_function
    sc_pc,           \* "call" | "returned"
    sc_in,           \* the version of the function and the distance, in 1/Scale
    sc_ret,          \* the score returned, in 1/ScoreDen, or <<>>
    \* ----- faiss_loader and the metadata of the documents it loads
    lm_pc,           \* position of the faiss_loader thread: "get" or "returned"
    lm_qin,          \* the items still on the inbound queue of the thread
    lm_db,           \* db of faiss_loader, the (id, metadata) of its documents; <<>> is None
    lm_qout,         \* what the thread has put on its outbound queue
    \* ----- SQLiteCacheFixed
    sd,              \* self.sd, the SQLiteDict: the values stored under the keys present
    lc_call,         \* the latest call made on the cache, with its arguments
    lc_ret,          \* what the latest call returned
    lc_n             \* how many calls were made

searchVars == <<s_pc, ntotal, ranking, ok_ids, k, trial, diff, trial_ids,
                n_asked, s_path, s_ret>>

mergeData == <<db, merged_dbs, failed_to_merge, m_fault, m_in>>

mergeVars == <<d_pc, d_err, mergeData>>

poolVars == <<pool, w_file, sent, docs, files, list_of_files, d_i, to_embed, lq, qin, qout, w_pc, w_db,
              start_stopping_threads, out_vals, log, poll_tick, n_faults>>

costVars == <<c_pc, cost_in, price, ans, c_events>>

embedVars == <<e_docs, e_batch>>

\* the variables of the functions modelled one call at a time
expireVars == <<x_pc, x_in, x_fs, x_loop, x_report, x_err>>

nsVars == <<n_pc, n_cfg, backend, embed_model, embed_model_str>>

batchVars == <<b_pc, texts, n_embed_query, embeds, order, cluster_labels,
               text_sizes, buckets, b_err>>

evalVars == <<v_pc, v_in, v_ie, filtered_docs, v_ret>>

scoreVars == <<sc_pc, sc_in, sc_ret>>

metaVars == <<lm_pc, lm_qin, lm_db, lm_qout>>

cacheVars == <<sd, lc_call, lc_ret, lc_n>>

taskVars == <<costVars, embedVars, expireVars, nsVars, batchVars, evalVars, scoreVars, metaVars, cacheVars>>

vars == <<searchVars, mergeVars, poolVars, taskVars>>

\* the variables the steps of one function leave alone
notTask == <<searchVars, mergeVars, poolVars>>
notCost == <<notTask, embedVars, expireVars, nsVars, batchVars, evalVars, scoreVars, metaVars, cacheVars>>
notEmbed == <<notTask, costVars, expireVars, nsVars, batchVars, evalVars, scoreVars, metaVars, cacheVars>>
notExpire == <<notTask, costVars, embedVars, nsVars, batchVars, evalVars, scoreVars, metaVars, cacheVars>>
notNs == <<notTask, costVars, embedVars, expireVars, batchVars, evalVars, scoreVars, metaVars, cacheVars>>
notBatch == <<notTask, costVars, embedVars, expireVars, nsVars, evalVars, scoreVars, metaVars, cacheVars>>
notEval == <<notTask, costVars, embedVars, expireVars, nsVars, batchVars, scoreVars, metaVars, cacheVars>>
notScore == <<notTask, costVars, embedVars, expireVars, nsVars, batchVars, evalVars, metaVars, cacheVars>>
notMeta == <<notTask, costVars, embedVars, expireVars, nsVars, batchVars, evalVars, scoreVars, cacheVars>>
notCache == <<notTask, costVars, embedVars, expireVars, nsVars, batchVars, evalVars, scoreVars, metaVars>>

(***************************************************************************)
(* Bounds of the model.                                                    *)
(***************************************************************************)
MaxVecs == 4
MaxK == 3
\* document ids 1..MaxIds, shards of at most MaxShard documents
MaxIds == 3
MaxShard == 2
\* the pool: NbWorkers workers (NB_LOADER_WORKERS = 10 in the source), inbound
\* queues of QMax items (maxsize=10 in the source), NDocs documents
NbWorkers == 2
QMax == 1
NDocs == 2
\* how many worker faults (crash, hang, unmergeable shard) one run injects
MaxFaults == 1

(***************************************************************************)
(* The values of the search variables while no search is modelled.         *)
(***************************************************************************)
SearchIdle ==
    /\ s_pc = "idle" /\ ntotal = 0 /\ ranking = <<>> /\ ok_ids = {} /\ k = 0
    /\ trial = 0 /\ diff = 0 /\ trial_ids = <<>> /\ n_asked = 0
    /\ s_path = "first" /\ s_ret = <<>>

(***************************************************************************)
(* The values of the variables of a function while no call is modelled.    *)
(***************************************************************************)
CostIdle ==
    /\ c_pc = "idle" /\ cost_in = <<>> /\ price = 0 /\ ans = "" /\ c_events = <<>>

EmbedIdle == e_docs = 0 /\ e_batch = <<>>

ExpireIdle ==
    /\ x_pc = "idle" /\ x_in = <<>> /\ x_fs = <<>> /\ x_loop = <<>>
    /\ x_report = <<>> /\ x_err = "none"

NsIdle ==
    /\ n_pc = "idle" /\ n_cfg = <<>> /\ backend = <<>> /\ embed_model = <<>>
    /\ embed_model_str = <<>>

BatchIdle ==
    /\ b_pc = "idle" /\ texts = <<>> /\ n_embed_query = 0 /\ embeds = <<>>
    /\ order = <<>> /\ cluster_labels = <<>> /\ text_sizes = <<>>
    /\ buckets = <<>> /\ b_err = "none"

EvalIdle ==
    /\ v_pc = "idle" /\ v_in = <<>> /\ v_ie = 0 /\ filtered_docs = <<>>
    /\ v_ret = <<>>

ScoreIdle ==
    /\ sc_pc = "idle" /\ sc_in = <<>> /\ sc_ret = <<>>

MetaIdle ==
    /\ lm_pc = "idle" /\ lm_qin = <<>> /\ lm_db = <<>> /\ lm_qout = <<>>

CacheIdle ==
    /\ sd = <<>> /\ lc_call = <<>> /\ lc_ret = <<>> /\ lc_n = 0

TaskIdle == CostIdle /\ EmbedIdle /\ ExpireIdle /\ NsIdle /\ BatchIdle /\ EvalIdle /\ ScoreIdle /\ MetaIdle /\ CacheIdle

(***************************************************************************)
(* The values of the pool variables while no worker pool is modelled.      *)
(***************************************************************************)
PoolIdle ==
    /\ pool = "none" /\ sent = <<>> /\ w_file = <<>>
    /\ docs = <<>> /\ files = {} /\ list_of_files = {} /\ d_i = 0 /\ to_embed = <<>>
    /\ lq = 0 /\ qin = <<>> /\ qout = <<>> /\ w_pc = <<>> /\ w_db = <<>>
    /\ start_stopping_threads = 0 /\ out_vals = <<>> /\ log = {} /\ poll_tick = 0
    /\ n_faults = 0

(***************************************************************************)
(* Generic helpers.                                                        *)
(***************************************************************************)
Range(s) == {s[i] : i \in 1..Len(s)}

RECURSIVE SelectMask(_, _)
\* numpy boolean indexing a[mask]: the elements of a whose mask entry is TRUE
SelectMask(a, mask) ==
    IF a = <<>> THEN <<>>
    ELSE (IF Head(mask) THEN <<Head(a)>> ELSE <<>>) \o SelectMask(Tail(a), Tail(mask))

Permutations0(n) ==
    {f \in [1..n -> 0..(n - 1)] : \A i, j \in 1..n : f[i] = f[j] => i = j}

(***************************************************************************)
(* The FAISS vector store as load_embeddings uses it.  A store is          *)
(*   ds   docstore._dict: the document ids in insertion order              *)
(*   xb   the index's vector storage: xb[p+1] is the vector at position p, *)
(*        named by the id of the document it embeds (Garbage: no document) *)
(*   i2d  index_to_docstore_id: i2d[p+1] is the id mapped from position p  *)
(* None is the value of a db that was never assigned.                      *)
(***************************************************************************)
Ids == 1..MaxIds
Garbage == 0

None == [isNone |-> TRUE, ds |-> <<>>, xb |-> <<>>, i2d |-> <<>>]

\* the shard FAISS.from_documents / FAISS.load_local builds for the ids
Shard(ids) == [isNone |-> FALSE, ds |-> ids, xb |-> ids, i2d |-> ids]

DupMsg == "Tried to add ids that already exist"

\* the outcome of a library call: the stores after it and the error raised
\* ("none", a ValueError with its message, or another exception)
Outcome(a, b, e) == [db |-> a, other |-> b, err |-> e]

IsValueError(e) == e \in {"ValueError: " \o DupMsg, "ValueError: other"}

\* db.merge_from(m): the index vectors are moved first (m's index is left
\* empty), then the docstore rejects the whole batch if any id exists
merge_from(a, m, fault) ==
    IF a.isNone \/ m.isNone THEN Outcome(a, m, "AttributeError")
    ELSE IF fault = "bulk_value" THEN Outcome(a, m, "ValueError: other")
    ELSE IF fault = "bulk_other" THEN Outcome(a, m, "RuntimeError")
    ELSE LET moved == [a EXCEPT !.xb = a.xb \o m.xb]
             emptied == [m EXCEPT !.xb = <<>>]
         IN IF Range(m.i2d) \cap Range(a.ds) # {}
            THEN Outcome(moved, emptied, "ValueError: " \o DupMsg)
            ELSE Outcome([moved EXCEPT !.ds = a.ds \o m.i2d,
                                       !.i2d = a.i2d \o m.i2d],
                         emptied, "none")

\* db1.add_embeddings(text_embeddings=[(text, embe)], ids=[docuid]): the
\* vector is added to the index first, then the docstore rejects an
\* existing id
add_embeddings(a, docuid, embe, fault) ==
    IF fault = "add_value" THEN Outcome(a, None, "ValueError: other")
    ELSE IF fault = "add_other" THEN Outcome(a, None, "RuntimeError")
    ELSE LET added == [a EXCEPT !.xb = a.xb \o <<embe>>]
         IN IF docuid \in Range(a.ds)
            THEN Outcome(added, None, "ValueError: " \o DupMsg)
            ELSE Outcome([added EXCEPT !.ds = a.ds \o <<docuid>>,
                                       !.i2d = a.i2d \o <<docuid>>],
                         None, "none")

\* faiss.rev_swig_ptr(db2.index.get_xb(), len(doc_ids) * d): the first
\* len(doc_ids) vectors of the storage; past the end of what the index
\* holds the read is of released storage, and yields the old vector or not
ReadXb(m, n, stale) ==
    [i \in 1..n |-> IF i <= Len(m.xb) THEN m.xb[i]
                    ELSE IF stale = "intact" THEN m.ds[i] ELSE Garbage]

\* an except clause of iter_merge that recovers every ValueError
RecoveredAnyValueError(e) == IsValueError(e)

\* lines 74-77: the error iter_merge recovers from
Recovered(e) == e = "ValueError: " \o DupMsg

RECURSIVE IterLoop(_, _, _, _, _, _)
\* lines 66-77 of iter_merge: the loop over zip(doc_ids, vecs)
IterLoop(a, doc_ids, vecs, i, failed, fault) ==
    IF i > Len(doc_ids) THEN [db |-> a, failed |-> failed, err |-> "none"]
    ELSE LET r == add_embeddings(a, doc_ids[i], vecs[i], IF i = 1 THEN fault ELSE "none")
         IN IF r.err = "none"
            THEN IterLoop(r.db, doc_ids, vecs, i + 1, failed, fault)
            ELSE IF Recovered(r.err)
            THEN IterLoop(r.db, doc_ids, vecs, i + 1, failed \o <<doc_ids[i]>>, fault)
            ELSE [db |-> r.db, failed |-> failed, err |-> r.err]

\* iter_merge(db1, db2), lines 57-78
iter_merge(db1, db2, stale, fault) ==
    LET doc_ids == db2.ds
        vecs == ReadXb(db2, Len(doc_ids), stale)
    IN IterLoop(db1, doc_ids, vecs, 1, <<>>, fault)

\* a merge path without the item-by-item fallback
MergePathNoFallback(a, m, stale, fault) ==
    LET r == merge_from(a, m, fault)
    IN [db |-> r.db, failed |-> <<>>, err |-> r.err]

\* lines 379-384 (and 527-532): the try / except around db.merge_from(m)
MergePath(a, m, stale, fault) ==
    LET r == merge_from(a, m, fault)
    IN IF r.err = "none" THEN [db |-> r.db, failed |-> <<>>, err |-> "none"]
       ELSE IF ~IsValueError(r.err) \/ r.err # "ValueError: " \o DupMsg
       THEN [db |-> r.db, failed |-> <<>>, err |-> r.err]
       ELSE iter_merge(r.db, r.other, stale, fault)

(***************************************************************************)
(* load_embeddings: merging the partial results, lines 371-391             *)
(***************************************************************************)
\* lines 373-375: db = merged_dbs.pop(0)
MergeFirst ==
    /\ d_pc = "merge_first"
    /\ IF merged_dbs # <<>>
       THEN /\ db' = Head(merged_dbs)
            /\ merged_dbs' = Tail(merged_dbs)
       ELSE UNCHANGED <<db, merged_dbs>>
    /\ d_pc' = "merge"
    /\ UNCHANGED <<d_err, failed_to_merge, m_fault, m_in, searchVars, poolVars, taskVars>>

\* lines 378-384: one iteration of for m in merged_dbs
MergeNext ==
    /\ d_pc = "merge"
    /\ merged_dbs # <<>>
    /\ \E stale \in {"intact", "garbage"} :
       LET r == MergePath(db, Head(merged_dbs), stale, m_fault)
       IN /\ db' = r.db
          /\ failed_to_merge' = failed_to_merge \o r.failed
          /\ IF r.err = "none"
             THEN /\ merged_dbs' = Tail(merged_dbs)
                  /\ UNCHANGED <<d_pc, d_err>>
             ELSE /\ d_pc' = "failed"
                  /\ d_err' = r.err
                  /\ UNCHANGED merged_dbs
    /\ UNCHANGED <<m_fault, m_in, searchVars, poolVars, taskVars>>

\* the loop is over: the merged index is complete
MergeDone ==
    /\ d_pc = "merge"
    /\ merged_dbs = <<>>
    /\ d_pc' = "merged"
    /\ UNCHANGED <<d_err, db, merged_dbs, failed_to_merge, m_fault, m_in,
                   searchVars, poolVars, taskVars>>

MergeIdle ==
    /\ d_pc = "idle" /\ d_err = "none" /\ db = None /\ merged_dbs = <<>>
    /\ failed_to_merge = <<>> /\ m_fault = "none"
    /\ m_in = <<>>

\* the sequences of distinct ids of length 1..MaxShard
IdSeqs ==
    {s \in UNION {[1..n -> Ids] : n \in 1..MaxShard} :
        \A i, j \in 1..Len(s) : s[i] = s[j] => i = j}

Faults == {"none", "bulk_value", "bulk_other", "add_value", "add_other"}

\* two arbitrary shards S1, S2 enter the merge path
InitMerge ==
    /\ SearchIdle /\ PoolIdle /\ TaskIdle
    /\ d_pc = "merge_first" /\ d_err = "none" /\ db = None
    /\ \E s1, s2 \in IdSeqs :
         /\ merged_dbs = <<Shard(s1), Shard(s2)>>
         /\ m_in = <<s1, s2>>
    /\ failed_to_merge = <<>>
    /\ m_fault \in Faults

NextMerge == MergeFirst \/ MergeNext \/ MergeDone

SpecMerge == InitMerge /\ [][NextMerge]_vars

S1ids == Range(m_in[1])
S2ids == Range(m_in[2])

\* the documents of S2 whose id S1 already holds, in S2's order
Colliding == SelectSeq(m_in[2], LAMBDA d : d \in S1ids)

(* C7: merging two shards S1, S2 through the merge path (merge_from, then
   iter_merge when the bulk merge is rejected for duplicate ids) raises no
   error and leaves a document store of exactly |ids(S1) \cup ids(S2)|
   documents; when the ids are disjoint that is |S1| + |S2| and the index
   holds as many vectors. *)
C7_MergeSize ==
    (d_pc \in {"merged", "failed"} /\ m_fault = "none") =>
        /\ d_pc = "merged" /\ d_err = "none"
        /\ Len(db.ds) = Cardinality(S1ids \cup S2ids)
        /\ Range(db.ds) = S1ids \cup S2ids
        /\ (S1ids \cap S2ids = {}) =>
              /\ Len(db.ds) = Len(m_in[1]) + Len(m_in[2])
              /\ Len(db.xb) = Len(db.ds)

\* two shards sharing an id were merged through the fallback
C7_Witness ==
    /\ d_pc = "merged" /\ m_fault = "none"
    /\ S1ids \cap S2ids # {} /\ S2ids \ S1ids # {}
    /\ failed_to_merge # <<>>

(* C8: after a merge step into the merged index, the ids of the document
   store and the ids mapped from the index's vectors are the same set: every
   stored document has a vector and every vector maps to a stored document. *)
C8_DocsAndVectorsAgree ==
    d_pc = "merged" =>
        /\ \A p \in 1..Len(db.xb) : p <= Len(db.i2d) /\ db.i2d[p] \in Range(db.ds)
        /\ \A d \in Range(db.ds) : \E p \in 1..Len(db.xb) : p <= Len(db.i2d) /\ db.i2d[p] = d

(* C9: only the error signalling already-existing ids is recovered: the
   colliding documents end in failed_to_merge and nothing is raised for them;
   an error of any other cause ends the merge with that error. *)
C9_OnlyDuplicatesRecovered ==
    /\ d_pc = "failed" =>
          /\ d_err # "ValueError: " \o DupMsg
          /\ m_fault \in {"bulk_value", "add_value"} => d_err = "ValueError: other"
          /\ m_fault \in {"bulk_other", "add_other"} => d_err = "RuntimeError"
    /\ d_pc = "merged" =>
          /\ failed_to_merge = Colliding
          /\ m_fault \in {"none", "add_value", "add_other"}
          /\ m_fault # "none" => S1ids \cap S2ids = {}

\* a ValueError of another cause, raised inside iter_merge, ended the merge
C9_Witness ==
    /\ d_pc = "failed" /\ d_err = "ValueError: other" /\ m_fault = "add_value"
    /\ S1ids \cap S2ids # {}

(***************************************************************************)
(* load_embeddings: the loader pool, lines 297-369, and faiss_loader        *)
(***************************************************************************)
Workers == 1..NbWorkers

\* (10 * 60) seconds of line 348, in units of timeout = 10 seconds (line 307)
JoinLimit == 60

\* t.is_alive()
Alive(w) == w_pc[w] \in {"run", "saving", "stopping", "hung"}

\* (fi, doc.metadata) of line 324; the metadata is named by the document
WorkItem(i) == [kind |-> "work", fi |-> docs[i], metadata |-> i]

\* (False, None) of line 331
StopItem == [kind |-> "stop", fi |-> 0, metadata |-> 0]

\* "Stopped" put in the place of the running shard
DbValAsStopped(x) == [kind |-> "Stopped", db |-> None]

\* qout.put(db) of line 588
DbVal(x) == [kind |-> "db", db |-> x]
StoppedVal == [kind |-> "Stopped", db |-> None]

\* an exception ends load_embeddings
Fail(e) == d_pc' = "failed" /\ d_err' = e

\* the worker whose liveness line 323 asserts: loader_workers[ind], where ind
\* is the position (0 or 1) of the chosen queue among the two candidates
CheckedWorker(ind, a, b) == ind + 1

\* line 314: doc.metadata["content_hash"] in list_of_files
Cached(i) == docs[i] \in list_of_files

\* an if without its else: every document is appended to to_embed
NotCachedAlways(i) == TRUE

\* line 325: else
NotCached(i) == ~Cached(i)

\* lines 325-326: no shard file for this document
DispatchToEmbed ==
    /\ pool = "loader"
    /\ d_pc = "dispatch" /\ d_i <= Len(docs)
    /\ NotCached(d_i)
    /\ to_embed' = Append(to_embed, d_i)
    /\ d_i' = d_i + 1
    /\ UNCHANGED <<pool, w_file, sent, docs, files, list_of_files, lq, qin, qout, w_pc, w_db,
                   start_stopping_threads, out_vals, log, poll_tick, n_faults,
                   mergeVars, searchVars, taskVars>>

\* lines 314-323: two candidate workers a, b are sampled, the one with the
\* smaller inbound queue is chosen (the first on a tie), liveness is asserted
DispatchChoose ==
    /\ pool = "loader"
    /\ d_pc = "dispatch" /\ d_i <= Len(docs)
    /\ Cached(d_i)
    /\ \E a, b \in Workers :
         /\ a # b
         /\ LET ind == IF Len(qin[a]) <= Len(qin[b]) THEN 0 ELSE 1
                chosen == IF ind = 0 THEN a ELSE b
            IN IF docs[d_i] \notin files
               THEN Fail("AssertionError: fi does not exist") /\ lq' = 0
               ELSE IF ~Alive(CheckedWorker(ind, a, b))
               THEN Fail("AssertionError: Loader worker is dead") /\ lq' = 0
               ELSE d_pc' = "put" /\ lq' = chosen /\ UNCHANGED d_err
    /\ UNCHANGED <<pool, w_file, sent, docs, files, list_of_files, d_i, to_embed, qin, qout, w_pc, w_db,
                   start_stopping_threads, out_vals, log, poll_tick, n_faults,
                   mergeData, searchVars, taskVars>>

\* a queue that takes one item more than its maxsize
HasRoomForOneMore(w) == Len(qin[w]) <= QMax

\* lines 297 and 458, queue.Queue(maxsize=10): put() returns at once while
\* the queue holds fewer than maxsize items, and waits otherwise
HasRoom(w) == Len(qin[w]) < QMax

\* line 324 (and 503): lq.put((fi, doc.metadata)), which waits while the
\* queue is full
DispatchPut ==
    /\ d_pc = "put"
    /\ HasRoom(lq)
    /\ qin' = [qin EXCEPT ![lq] = Append(@, WorkItem(d_i))]
    /\ sent' = [sent EXCEPT ![d_i] = @ + 1]
    /\ d_i' = d_i + 1
    /\ lq' = 0
    /\ d_pc' = "dispatch"
    /\ UNCHANGED <<pool, w_file, docs, files, list_of_files, to_embed, qout, w_pc, w_db,
                   start_stopping_threads, out_vals, log, poll_tick, n_faults,
                   d_err, mergeData, searchVars, taskVars>>

\* the loop over docs left before its last document
DispatchEndEarly ==
    /\ pool = "loader"
    /\ d_pc = "dispatch" /\ d_i >= Len(docs)
    /\ d_pc' = "stop" /\ d_i' = 1
    /\ UNCHANGED <<pool, w_file, sent, docs, files, list_of_files, to_embed, lq, qin, qout, w_pc, w_db,
                   start_stopping_threads, out_vals, log, poll_tick, n_faults,
                   d_err, mergeData, searchVars, taskVars>>

\* line 313: the loop over docs is over
DispatchEnd ==
    /\ pool = "loader"
    /\ d_pc = "dispatch" /\ d_i > Len(docs)
    /\ d_pc' = "stop" /\ d_i' = 1
    /\ UNCHANGED <<pool, w_file, sent, docs, files, list_of_files, to_embed, lq, qin, qout, w_pc, w_db,
                   start_stopping_threads, out_vals, log, poll_tick, n_faults,
                   d_err, mergeData, searchVars, taskVars>>

\* line 331: q[0].put((False, None)) for each worker in turn, waiting while
\* the queue is full; lines 538-539: the savers that are not alive are skipped
StopPut ==
    /\ d_pc = "stop"
    /\ IF pool = "saver" /\ ~Alive(d_i)
       THEN UNCHANGED qin
       ELSE /\ HasRoom(d_i)
            /\ qin' = [qin EXCEPT ![d_i] = Append(@, StopItem)]
    /\ IF d_i = NbWorkers
       THEN d_pc' = (IF pool = "loader" THEN "poll_check" ELSE "join") /\ d_i' = 1
       ELSE d_i' = d_i + 1 /\ UNCHANGED d_pc
    /\ UNCHANGED <<pool, w_file, sent, docs, files, list_of_files, to_embed, lq, qout, w_pc, w_db,
                   start_stopping_threads, out_vals, log, poll_tick, n_faults,
                   d_err, mergeData, searchVars, taskVars>>

\* line 335: assert loader_workers[iq].is_alive()
PollCheck ==
    /\ d_pc = "poll_check"
    /\ IF Alive(d_i)
       THEN d_pc' = "poll" /\ UNCHANGED d_err
       ELSE Fail("AssertionError: Loader worker is dead")
    /\ UNCHANGED <<mergeData, poolVars, searchVars, taskVars>>

\* lines 339-342: q[1].get(timeout=timeout) returns the partial db
PollGet ==
    /\ d_pc = "poll"
    /\ qout[d_i] # <<>>
    /\ merged_dbs' = Append(merged_dbs, Head(qout[d_i]).db)
    /\ qout' = [qout EXCEPT ![d_i] = Tail(@)]
    /\ IF d_i = NbWorkers
       THEN d_pc' = "join" /\ d_i' = 1
       ELSE d_pc' = "poll_check" /\ d_i' = d_i + 1
    /\ UNCHANGED <<pool, w_file, sent, docs, files, list_of_files, to_embed, lq, qin, w_pc, w_db,
                   start_stopping_threads, out_vals, log, poll_tick, n_faults,
                   d_err, db, failed_to_merge, m_fault, m_in, searchVars, taskVars>>

\* lines 343-344: queue.Empty after the timeout; the poll is tried again
PollEmpty ==
    /\ d_pc = "poll"
    /\ qout[d_i] = <<>>
    /\ log' = log \cup {"failed to reply"}
    /\ poll_tick' = 1 - poll_tick
    /\ UNCHANGED <<pool, w_file, sent, docs, files, list_of_files, d_i, to_embed, lq, qin, qout, w_pc, w_db,
                   start_stopping_threads, out_vals, n_faults, mergeVars, searchVars, taskVars>>

\* lines 347-354 and 365-366 (541-548 and 559-560): the head of the join loop
JoinLoop ==
    /\ d_pc = "join"
    /\ IF \A w \in Workers : ~Alive(w)
       THEN d_pc' = "out_vals" /\ d_i' = 1 /\ UNCHANGED log
       ELSE IF start_stopping_threads > JoinLimit
       THEN /\ d_pc' = "out_vals" /\ d_i' = 1
            /\ log' = log \cup {"waited for threads to stop", "failed to stop"}
       ELSE d_pc' = "join_for" /\ d_i' = 1 /\ UNCHANGED log
    /\ UNCHANGED <<pool, w_file, sent, docs, files, list_of_files, to_embed, lq, qin, qout, w_pc, w_db,
                   start_stopping_threads, out_vals, poll_tick, n_faults,
                   d_err, mergeData, searchVars, taskVars>>

\* lines 355-357 (549-551): the thread is not alive, or ends while joined
JoinEnded ==
    /\ d_pc = "join_for"
    /\ ~Alive(d_i)
    /\ IF d_i = NbWorkers
       THEN d_pc' = "join" /\ d_i' = 1
       ELSE d_i' = d_i + 1 /\ UNCHANGED d_pc
    /\ UNCHANGED <<pool, w_file, sent, docs, files, list_of_files, to_embed, lq, qin, qout, w_pc, w_db,
                   start_stopping_threads, out_vals, log, poll_tick, n_faults,
                   d_err, mergeData, searchVars, taskVars>>

\* what lines 359-360 (553-554) evaluate for a thread that is still alive:
\* q = loader_queues[ith] is the pair (qin, qout), and a pair has no qsize()
StillAlivePath == "AttributeError: 'tuple' object has no attribute 'qsize'"

\* lines 357-364 (551-558): t.join(timeout=timeout) times out on a thread
\* that is still alive
JoinTimeout ==
    /\ d_pc = "join_for"
    /\ Alive(d_i)
    /\ start_stopping_threads' = start_stopping_threads + 1
    /\ Fail(StillAlivePath)
    /\ UNCHANGED <<pool, w_file, sent, docs, files, list_of_files, d_i, to_embed, lq, qin, qout, w_pc, w_db,
                   out_vals, log, poll_tick, n_faults,
                   mergeData, searchVars, taskVars>>

\* line 367 (561): q[1].get(timeout=...) returns the next value of the queue,
\* or raises queue.Empty after the timeout, which nothing catches
OutValsGet ==
    /\ d_pc = "out_vals"
    /\ IF qout[d_i] = <<>>
       THEN Fail("queue.Empty") /\ UNCHANGED <<out_vals, qout, d_i>>
       ELSE /\ out_vals' = Append(out_vals, Head(qout[d_i]).kind)
            /\ qout' = [qout EXCEPT ![d_i] = Tail(@)]
            /\ UNCHANGED d_err
            /\ IF d_i = NbWorkers
               THEN /\ d_pc' = (IF pool = "loader" THEN "merge_first" ELSE "saved")
                    /\ d_i' = 1
               ELSE d_i' = d_i + 1 /\ UNCHANGED d_pc
    /\ UNCHANGED <<pool, w_file, sent, docs, files, list_of_files, to_embed, lq, qin, w_pc, w_db,
                   start_stopping_threads, log, poll_tick, n_faults,
                   mergeData, searchVars, taskVars>>

(* faiss_loader, lines 583-617 *)

\* lines 586-588: the stop item; the running shard is put on qout
LoaderStop(w) ==
    /\ pool = "loader"
    /\ w_pc[w] = "run"
    /\ qin[w] # <<>> /\ Head(qin[w]).kind = "stop"
    /\ qin' = [qin EXCEPT ![w] = Tail(@)]
    /\ qout' = [qout EXCEPT ![w] = Append(@, DbVal(w_db[w]))]
    /\ w_pc' = [w_pc EXCEPT ![w] = "stopping"]
    /\ UNCHANGED <<pool, w_file, sent, docs, files, list_of_files, d_i, to_embed, lq, w_db,
                   start_stopping_threads, out_vals, log, poll_tick, n_faults,
                   mergeVars, searchVars, taskVars>>

\* lines 589-590 without the return: the thread goes back to qin.get()
LoaderStoppedNoReturn(w) ==
    /\ pool = "loader"
    /\ w_pc[w] = "stopping"
    /\ qout' = [qout EXCEPT ![w] = Append(@, StoppedVal)]
    /\ w_pc' = [w_pc EXCEPT ![w] = "run"]
    /\ UNCHANGED <<pool, w_file, sent, docs, files, list_of_files, d_i, to_embed, lq, qin, w_db,
                   start_stopping_threads, out_vals, log, poll_tick, n_faults,
                   mergeVars, searchVars, taskVars>>

\* lines 589-590: qout.put("Stopped"); return
LoaderStopped(w) ==
    /\ pool = "loader"
    /\ w_pc[w] = "stopping"
    /\ qout' = [qout EXCEPT ![w] = Append(@, StoppedVal)]
    /\ w_pc' = [w_pc EXCEPT ![w] = "done"]
    /\ UNCHANGED <<pool, w_file, sent, docs, files, list_of_files, d_i, to_embed, lq, qin, w_db,
                   start_stopping_threads, out_vals, log, poll_tick, n_faults,
                   mergeVars, searchVars, taskVars>>

\* the merge without the test of line 608
LoaderMergeNoSkip(running, did) ==
    IF running.isNone THEN Shard(<<did>>)
    ELSE merge_from(running, Shard(<<did>>), "none").db

\* lines 603-613 on a loaded shard temp holding the one id did
LoaderMerge(running, did) ==
    IF running.isNone THEN Shard(<<did>>)
    ELSE IF did \in Range(running.ds) THEN running
    ELSE merge_from(running, Shard(<<did>>), "none").db

\* a work unit merged into one running shard shared by all the workers
LoaderWorkShared(w) ==
    /\ pool = "loader"
    /\ w_pc[w] = "run"
    /\ qin[w] # <<>> /\ Head(qin[w]).kind = "work"
    /\ qin' = [qin EXCEPT ![w] = Tail(@)]
    /\ LET fi == Head(qin[w]).fi
       IN IF fi \notin files
          THEN w_pc' = [w_pc EXCEPT ![w] = "dead"] /\ UNCHANGED w_db
          ELSE /\ w_db' = [w_db EXCEPT ![1] = LoaderMerge(@, fi)]
               /\ UNCHANGED w_pc
    /\ UNCHANGED <<pool, w_file, sent, docs, files, list_of_files, d_i, to_embed, lq, qout,
                   start_stopping_threads, out_vals, log, poll_tick, n_faults,
                   mergeVars, searchVars, taskVars>>

\* lines 591-613: a work unit; the shard file is loaded and merged into the
\* running shard.  FAISS.load_local raises when the file is gone, and the
\* exception ends the thread
LoaderWork(w) ==
    /\ pool = "loader"
    /\ w_pc[w] = "run"
    /\ qin[w] # <<>> /\ Head(qin[w]).kind = "work"
    /\ qin' = [qin EXCEPT ![w] = Tail(@)]
    /\ LET fi == Head(qin[w]).fi
       IN IF fi \notin files
          THEN w_pc' = [w_pc EXCEPT ![w] = "dead"] /\ UNCHANGED w_db
          ELSE /\ w_db' = [w_db EXCEPT ![w] = LoaderMerge(@, fi)]
               /\ UNCHANGED w_pc
    /\ UNCHANGED <<pool, w_file, sent, docs, files, list_of_files, d_i, to_embed, lq, qout,
                   start_stopping_threads, out_vals, log, poll_tick, n_faults,
                   mergeVars, searchVars, taskVars>>

\* lines 612-617: db.merge_from(temp) raises ValueError on a shard that
\* cannot be merged; the shard's files are deleted and the loop goes on
LoaderMergeError(w) ==
    /\ pool = "loader"
    /\ w_pc[w] = "run" /\ n_faults < MaxFaults
    /\ qin[w] # <<>> /\ Head(qin[w]).kind = "work"
    /\ LET fi == Head(qin[w]).fi
       IN /\ fi \in files
          /\ ~w_db[w].isNone /\ fi \notin Range(w_db[w].ds)
          /\ files' = files \ {fi}
    /\ qin' = [qin EXCEPT ![w] = Tail(@)]
    /\ log' = log \cup {"error when loading cache"}
    /\ n_faults' = n_faults + 1
    /\ UNCHANGED <<pool, w_file, sent, docs, list_of_files, d_i, to_embed, lq, qout, w_pc, w_db,
                   start_stopping_threads, out_vals, poll_tick,
                   mergeVars, searchVars, taskVars>>

\* lines 593-598: FAISS.load_local raises on an unreadable shard (the thread
\* ends with the exception), or never returns
LoaderFault(w) ==
    /\ pool = "loader"
    /\ w_pc[w] = "run" /\ n_faults < MaxFaults
    /\ qin[w] # <<>> /\ Head(qin[w]).kind = "work"
    /\ qin' = [qin EXCEPT ![w] = Tail(@)]
    /\ \E f \in {"dead", "hung"} : w_pc' = [w_pc EXCEPT ![w] = f]
    /\ n_faults' = n_faults + 1
    /\ UNCHANGED <<pool, w_file, sent, docs, files, list_of_files, d_i, to_embed, lq, qout, w_db,
                   start_stopping_threads, out_vals, log, poll_tick,
                   mergeVars, searchVars, taskVars>>

(* the saver pool, lines 451-563, and faiss_saver, lines 620-643 *)

\* the id FAISS.from_documents gives the i-th document to embed: a new one
NewId(i) == NDocs + i

\* lines 492-502, in the thread of the batch: every saver is asserted
\* alive, two candidates a, b are sampled, the one with the smaller inbound
\* queue is chosen and asserted alive
SaverChoose ==
    /\ pool = "saver"
    /\ d_pc = "dispatch" /\ d_i <= Len(docs)
    /\ \E a, b \in Workers :
         /\ a # b
         /\ LET ind == IF Len(qin[a]) <= Len(qin[b]) THEN 0 ELSE 1
                chosen == IF ind = 0 THEN a ELSE b
            IN IF \E w \in Workers : ~Alive(w)
               THEN Fail("AssertionError: Some saving thread died") /\ lq' = 0
               ELSE IF ~Alive(CheckedWorker(ind, a, b))
               THEN Fail("AssertionError: Worker is dead") /\ lq' = 0
               ELSE d_pc' = "put" /\ lq' = chosen /\ UNCHANGED d_err
    /\ UNCHANGED <<pool, w_file, sent, docs, files, list_of_files, d_i, to_embed, qin, qout, w_pc, w_db,
                   start_stopping_threads, out_vals, log, poll_tick, n_faults,
                   mergeData, searchVars, taskVars>>

\* lines 505-534: the batch is over; its shard temp is merged into db
BatchMerge ==
    /\ pool = "saver"
    /\ d_pc = "dispatch" /\ d_i > Len(docs)
    /\ \E stale \in {"intact", "garbage"} :
       LET temp == Shard([i \in 1..Len(docs) |-> NewId(i)])
           r == IF db.isNone THEN [db |-> temp, failed |-> <<>>, err |-> "none"]
                ELSE MergePath(db, temp, stale, m_fault)
       IN /\ db' = r.db
          /\ failed_to_merge' = r.failed
          /\ IF r.err = "none"
             THEN d_pc' = "stop" /\ d_i' = 1 /\ UNCHANGED d_err
             ELSE Fail(r.err) /\ UNCHANGED d_i
    /\ UNCHANGED <<pool, w_file, sent, docs, files, list_of_files, to_embed, lq, qin, qout, w_pc, w_db,
                   start_stopping_threads, out_vals, log, poll_tick, n_faults,
                   merged_dbs, m_fault, m_in, searchVars, taskVars>>

\* lines 628-632: the stop item; "Stopped" is put on qout and the thread ends
SaverStop(w) ==
    /\ pool = "saver"
    /\ w_pc[w] = "run"
    /\ qin[w] # <<>> /\ Head(qin[w]).kind = "stop"
    /\ qin' = [qin EXCEPT ![w] = Tail(@)]
    /\ qout' = [qout EXCEPT ![w] = Append(@, StoppedVal)]
    /\ w_pc' = [w_pc EXCEPT ![w] = "done"]
    /\ UNCHANGED <<pool, w_file, sent, docs, files, list_of_files, d_i, to_embed, lq, w_db,
                   start_stopping_threads, out_vals, log, poll_tick, n_faults,
                   mergeVars, searchVars, taskVars>>

\* lines 628-643: a work unit is taken, the single-document shard is built
\* and db.save_local(file) starts writing at the path named by the content
\* hash
SaverWork(w) ==
    /\ pool = "saver"
    /\ w_pc[w] = "run"
    /\ qin[w] # <<>> /\ Head(qin[w]).kind = "work"
    /\ qin' = [qin EXCEPT ![w] = Tail(@)]
    /\ w_pc' = [w_pc EXCEPT ![w] = "saving"]
    /\ w_file' = [w_file EXCEPT ![w] = Head(qin[w]).fi]
    /\ UNCHANGED <<pool, sent, docs, files, list_of_files, d_i, to_embed, lq, qout, w_db,
                   start_stopping_threads, out_vals, log, poll_tick, n_faults,
                   mergeVars, searchVars, taskVars>>

\* db.save_local(file) that returns with nothing written
SaverSavedNowhere(w) ==
    /\ pool = "saver"
    /\ w_pc[w] = "saving"
    /\ w_pc' = [w_pc EXCEPT ![w] = "run"]
    /\ w_file' = [w_file EXCEPT ![w] = 0]
    /\ UNCHANGED <<pool, sent, docs, files, list_of_files, d_i, to_embed, lq, qin, qout, w_db,
                   start_stopping_threads, out_vals, log, poll_tick, n_faults,
                   mergeVars, searchVars, taskVars>>

\* line 643: db.save_local(file) returns, the shard is on disk
SaverSaved(w) ==
    /\ pool = "saver"
    /\ w_pc[w] = "saving"
    /\ files' = files \cup {w_file[w]}
    /\ w_pc' = [w_pc EXCEPT ![w] = "run"]
    /\ w_file' = [w_file EXCEPT ![w] = 0]
    /\ UNCHANGED <<pool, sent, docs, list_of_files, d_i, to_embed, lq, qin, qout, w_db,
                   start_stopping_threads, out_vals, log, poll_tick, n_faults,
                   mergeVars, searchVars, taskVars>>

\* lines 635-643: db.save_local raises (the thread ends with the
\* exception), or never returns
SaverFault(w) ==
    /\ pool = "saver"
    /\ w_pc[w] = "saving" /\ n_faults < MaxFaults
    /\ \E f \in {"dead", "hung"} : w_pc' = [w_pc EXCEPT ![w] = f]
    /\ n_faults' = n_faults + 1
    /\ UNCHANGED <<pool, w_file, sent, docs, files, list_of_files, d_i, to_embed, lq,
                   qin, qout, w_db, start_stopping_threads, out_vals, log, poll_tick,
                   mergeVars, searchVars, taskVars>>

\* the steps of a healthy worker thread
WorkerStep(w) ==
    \/ LoaderStop(w) \/ LoaderStopped(w) \/ LoaderWork(w)
    \/ SaverStop(w) \/ SaverWork(w) \/ SaverSaved(w)

\* the faults of a worker thread
WorkerFault(w) == LoaderMergeError(w) \/ LoaderFault(w) \/ SaverFault(w)

\* the steps of the orchestrating thread
DispatcherStep ==
    \/ DispatchToEmbed \/ DispatchChoose \/ DispatchPut \/ DispatchEnd
    \/ SaverChoose \/ BatchMerge
    \/ StopPut \/ PollCheck \/ PollGet \/ PollEmpty
    \/ JoinLoop \/ JoinEnded \/ JoinTimeout \/ OutValsGet
    \/ MergeFirst \/ MergeNext \/ MergeDone

RECURSIVE MaxOf(_)
MaxOf(s) == IF s = <<>> THEN 0
            ELSE LET m == MaxOf(Tail(s)) IN IF Head(s) > m THEN Head(s) ELSE m

\* the lists of NDocs content hashes, up to the naming of the hashes: a new
\* hash is the next unused number
DocLists ==
    {s \in [1..NDocs -> 1..NDocs] :
        \A i \in 1..NDocs : s[i] <= MaxOf(SubSeq(s, 1, i - 1)) + 1}

\* the index loaded from the cache when the saver pool starts, when there is
\* one: a document loaded before
LoadedBefore == Shard(<<NDocs + NDocs + 1>>)

\* lines 284-312: the loader workers are started, the shard directory is listed
InitLoader ==
    /\ pool = "loader"
    /\ docs \in DocLists
    /\ files \in SUBSET Range(docs)
    /\ list_of_files = files
    /\ to_embed = <<>>
    /\ db = None

\* lines 451-468: the saver workers are started; docs are the documents left
\* to embed, none of which has a shard file
InitSaver ==
    /\ pool = "saver"
    /\ docs \in DocLists
    /\ files = {}
    /\ list_of_files = {}
    /\ to_embed = [i \in 1..NDocs |-> i]
    /\ db \in {None, LoadedBefore}

InitPool ==
    /\ SearchIdle /\ TaskIdle
    /\ InitLoader \/ InitSaver
    /\ sent = [i \in 1..NDocs |-> 0]
    /\ w_file = [w \in Workers |-> 0]
    /\ d_pc = "dispatch" /\ d_err = "none" /\ d_i = 1 /\ lq = 0
    /\ qin = [w \in Workers |-> <<>>]
    /\ qout = [w \in Workers |-> <<>>]
    /\ w_pc = [w \in Workers |-> "run"]
    /\ w_db = [w \in Workers |-> None]
    /\ merged_dbs = <<>> /\ failed_to_merge = <<>>
    /\ m_fault = "none" /\ m_in = <<>>
    /\ start_stopping_threads = 0 /\ out_vals = <<>> /\ log = {} /\ poll_tick = 0
    /\ n_faults = 0

NextPool ==
    \/ DispatcherStep
    \/ \E w \in Workers : WorkerStep(w) \/ WorkerFault(w)

SpecPool == InitPool /\ [][NextPool]_vars

\* the threads are scheduled: the orchestrating thread and every healthy
\* worker keep running; faults are not forced
FairSpecPool ==
    /\ SpecPool
    /\ WF_vars(DispatcherStep)
    /\ \A w \in Workers : WF_vars(WorkerStep(w))

\* the same without crash or hang of a worker
NextHealthy ==
    \/ DispatcherStep
    \/ \E w \in Workers : WorkerStep(w)

FairSpecHealthy ==
    /\ InitPool /\ [][NextHealthy]_vars
    /\ WF_vars(DispatcherStep)
    /\ \A w \in Workers : WF_vars(WorkerStep(w))

\* the stop item of worker w has been enqueued (it is queued, or consumed)
StopSent(w) ==
    \/ w_pc[w] \in {"stopping", "done"}
    \/ \E i \in 1..Len(qin[w]) : qin[w][i].kind = "stop"

\* the outbound queue of w holds, or has handed over, the acknowledgment
Acked(w) ==
    \/ \E i \in 1..Len(qout[w]) : qout[w][i].kind = "Stopped"
    \/ (Len(out_vals) >= w /\ out_vals[w] = "Stopped")

Faulty(w) == w_pc[w] \in {"dead", "hung"}

(* C3: once the dispatcher has enqueued one stop item to each of the N
   workers, and no worker is hung or has failed, every worker eventually
   terminates and every outbound queue eventually yields "Stopped". *)
C3_PoolShutdown ==
    (\A w \in Workers : StopSent(w))
        ~> ((\A w \in Workers : w_pc[w] = "done" /\ Acked(w))
            \/ (\E w \in Workers : Faulty(w)))

\* every worker received its stop item after work, ended, and acknowledged
C3_Witness ==
    /\ \A w \in Workers : w_pc[w] = "done" /\ Acked(w)
    /\ \E w \in Workers : ~w_db[w].isNone

\* the waits of the dispatcher during shutdown: the poll of the outbound
\* queues, the join loop and the final read of the outbound queues
ShutdownWaits == {"poll_check", "poll", "join", "join_for", "out_vals"}

(* C4: every wait of the dispatcher during shutdown is bounded, also when a
   worker never terminates or never replies: a dispatcher that polls the
   outbound queues or joins the threads eventually leaves these waits. *)
C4_ShutdownWaitsBounded ==
    (d_pc \in ShutdownWaits) ~> (d_pc \notin ShutdownWaits)

(* C5: the code path taken for a worker that is still alive after a join
   timeout raises no exception, in the loader and in the saver shutdown. *)
C5_StillAliveRaisesNothing == d_err # StillAlivePath

\* the dispatcher waits to put into the full inbound queue of a dead worker
BlockedOnDead(w) == w_pc[w] = "dead" /\ Len(qin[w]) = QMax

(* C6: the dispatcher never blocks forever putting a work unit or the stop
   item into the full inbound queue of a worker thread that has died. *)
C6_NoDeadlockOnDeadWorker ==
    /\ d_pc = "put" => ~BlockedOnDead(lq)
    /\ (d_pc = "stop" /\ pool = "loader") => ~BlockedOnDead(d_i)

\* the ids of the shards the loader pool was given: the content hashes of
\* the documents that have a shard file
LoadedIds == {docs[i] : i \in {j \in 1..Len(docs) : docs[j] \in list_of_files}}

\* the loader run is past its shutdown and no worker crashed or hung
LoadEnded ==
    /\ pool = "loader" /\ n_faults = 0
    /\ Len(out_vals) = NbWorkers
    /\ d_pc \in {"merged", "failed"}

(* C10: for every random assignment of shards to loader workers and every
   order of merging, the load ends with a merged index whose set of
   document ids is the union of the ids of the shards. *)
C10_FinalIdsAreUnion ==
    LoadEnded => (d_err = "none" /\ ~db.isNone /\ Range(db.ds) = LoadedIds)

\* the dispatch loop of the loader pool has run to its end
DispatchOver ==
    /\ pool = "loader"
    /\ d_pc \in {"stop", "poll_check", "poll", "join", "join_for", "out_vals",
                 "merge_first", "merge", "merged"}

InToEmbed(i) == \E n \in 1..Len(to_embed) : to_embed[n] = i

(* C16: a document is dispatched to exactly one loader worker if and only
   if a shard file named after its content_hash was in the shard directory
   at start, and is placed in to_embed otherwise; no document is both
   dispatched and in to_embed, and after the dispatch none is in neither. *)
C16_LoadedXorEmbedded ==
    pool = "loader" =>
      \A i \in 1..Len(docs) :
        /\ sent[i] <= 1
        /\ ~(sent[i] >= 1 /\ InToEmbed(i))
        /\ sent[i] = 1 => docs[i] \in list_of_files
        /\ InToEmbed(i) => docs[i] \notin list_of_files
        /\ DispatchOver => (sent[i] = 1 \/ InToEmbed(i))

\* after the dispatch one document went to a worker and another to to_embed
C16_Witness ==
    /\ DispatchOver
    /\ \E i, j \in 1..Len(docs) : sent[i] = 1 /\ InToEmbed(j)

\* saver w is inside db.save_local(file)
Writing(w) == pool = "saver" /\ w_pc[w] = "saving"

(* C18: no two saver workers ever write the same shard path at the same
   time: the paths being written by different savers are pairwise
   distinct. *)
C18_DistinctPathsWritten ==
    \A v, w \in Workers :
      (v # w /\ Writing(v) /\ Writing(w)) => w_file[v] # w_file[w]

\* worker w takes the head of its inbound queue in this step
TakesItem(w) == qin[w] # <<>> /\ qin'[w] = Tail(qin[w])

(* C27: each time a work unit is about to be enqueued, by the loader
   dispatch or by the saver dispatch, the worker whose liveness was just
   asserted is the worker whose inbound queue is chosen: the queue chosen
   belongs to a worker that is alive at the assertion. *)
C27_CheckedWorkerIsChosen ==
    [][(d_pc # "put" /\ d_pc' = "put") => Alive(lq')]_vars

\* the orchestrating thread is inside a put() on the inbound queue of w
Putting(w) ==
    \/ d_pc = "put" /\ lq = w
    \/ d_pc = "stop" /\ d_i = w /\ (pool = "loader" \/ Alive(w))

(* C28: an inbound queue never holds more than its maxsize items, the stop
   item counted; while the queue is full the thread that is putting into
   it stays in its put(), and while the queue has room the put() can
   complete. *)
C28_InboundQueueBounded ==
    /\ [](\A w \in Workers : Len(qin[w]) <= QMax)
    /\ [][\A w \in Workers :
            (Putting(w) /\ Len(qin[w]) = QMax /\ qin'[w] = qin[w])
                => (d_pc' = d_pc /\ d_i' = d_i /\ lq' = lq)]_vars
    /\ [](\A w \in Workers :
            (Putting(w) /\ Len(qin[w]) < QMax)
                => ENABLED (DispatchPut \/ StopPut))

\* the orchestrating thread waits in put() on a full queue while the worker
\* is alive, and the stop item waits on a queue that holds a work unit
C28_Witness ==
    \E w \in Workers :
        /\ Putting(w) /\ Len(qin[w]) = QMax /\ Alive(w)
        /\ d_pc = "stop" /\ Head(qin[w]).kind = "work"

\* worker w puts one item on its outbound queue in this step
PutsOut(w) == Len(qout'[w]) > Len(qout[w])

\* worker w takes the stop item from its inbound queue in this step
TakesStop(w) ==
    /\ qin[w] # <<>> /\ Head(qin[w]).kind = "stop"
    /\ qin'[w] = Tail(qin[w])

(* C29: a worker puts on its outbound queue only when it has taken the
   stop item: a loader puts its running shard and then "Stopped", a saver
   puts "Stopped" alone; the thread has then ended and takes nothing more
   from its inbound queue; the orchestrating thread reads the shard of a
   loader first and its "Stopped" afterwards. *)
C29_OutboundOnlyOnStop ==
    /\ [][\A w \in Workers : PutsOut(w) =>
            \/ /\ pool = "loader" /\ TakesStop(w)
               /\ qout'[w] = Append(qout[w], DbVal(w_db[w]))
               /\ w_pc'[w] = "stopping"
            \/ /\ pool = "loader" /\ w_pc[w] = "stopping"
               /\ qout'[w] = Append(qout[w], StoppedVal)
               /\ qin'[w] = qin[w]
               /\ w_pc'[w] = "done"
            \/ /\ pool = "saver" /\ TakesStop(w)
               /\ qout'[w] = Append(qout[w], StoppedVal)
               /\ w_pc'[w] = "done"]_vars
    /\ [][\A w \in Workers : w_pc[w] \in {"stopping", "done"} =>
            /\ w_pc'[w] \in {"stopping", "done"}
            /\ Len(qin'[w]) >= Len(qin[w])
            /\ w_pc[w] = "done" => w_pc'[w] = "done" /\ ~PutsOut(w)]_vars
    /\ [][(merged_dbs' # merged_dbs /\ d_pc = "poll") =>
            /\ Head(qout[d_i]).kind = "db"
            /\ merged_dbs' = Append(merged_dbs, w_db[d_i])
            /\ w_pc[d_i] \in {"stopping", "done"}]_vars
    /\ [][out_vals' # out_vals =>
            /\ Head(qout[d_i]) = StoppedVal
            /\ w_pc[d_i] = "done"
            /\ pool = "loader" => Len(merged_dbs) = NbWorkers]_vars

\* both loaders have put a shard that holds documents and then "Stopped";
\* the shards have been read and the first "Stopped" too
C29_Witness ==
    /\ pool = "loader"
    /\ \A w \in Workers : w_pc[w] = "done" /\ ~w_db[w].isNone
    /\ Len(merged_dbs) = NbWorkers
    /\ out_vals = <<"Stopped">>
    /\ qout[NbWorkers] = <<StoppedVal>>

\* worker w takes from its inbound queue, in this step, a shard that loads
\* and whose document id is already in the running shard of w
TakesDuplicate(w) ==
    /\ pool = "loader" /\ w_pc[w] = "run"
    /\ qin[w] # <<>> /\ Head(qin[w]).kind = "work"
    /\ qin'[w] = Tail(qin[w])
    /\ Head(qin[w]).fi \in files
    /\ n_faults' = n_faults
    /\ ~w_db[w].isNone /\ Head(qin[w]).fi \in Range(w_db[w].ds)

(* C30: a loader that takes a shard whose document id is already in its
   running shard skips it: nothing is raised, the running shard is what it
   was, the shard file is still on disk, and the thread is back at
   qin.get(). *)
C30_DuplicateSkipped ==
    [][\A w \in Workers : TakesDuplicate(w) =>
          /\ w_db' = w_db
          /\ files' = files
          /\ w_pc' = w_pc
          /\ d_err' = d_err /\ d_pc' = d_pc
          /\ qout' = qout]_vars

\* a loader whose running shard holds document 1 has been sent the shard of
\* document 1 again, has skipped it, and has gone on to the stop item
C30_Witness ==
    /\ pool = "loader"
    /\ \E w \in Workers :
         /\ sent[1] = 1 /\ sent[2] = 1 /\ docs[1] = docs[2]
         /\ w_db[w] = Shard(<<docs[1]>>)
         /\ w_db[3 - w].isNone
         /\ w_pc[w] = "done" /\ w_pc[3 - w] = "done"
         /\ docs[1] \in files
         /\ n_faults = 0 /\ d_err = "none"

\* no worker thread moves in this step
NoWorkerMoves == UNCHANGED <<w_pc, w_db, w_file, qin, files>>

(* C17: the final merged index is mutated by one thread at a time: a
   loader's running shard is mutated only by that loader, while it
   processes a work unit and before it has put the shard on its outbound
   queue; db is mutated only by steps of the orchestrating thread, and in
   the loader run only once every worker thread has ended. *)
C17_OneMutatorAtATime ==
    [][ /\ \A w \in Workers :
             w_db'[w] # w_db[w] => (pool = "loader" /\ w_pc[w] = "run" /\ TakesItem(w))
        /\ (db' # db) =>
             /\ NoWorkerMoves
             /\ pool = "loader" => \A w \in Workers : ~Alive(w)
      ]_vars

\* the partial shards of two loaders were merged by the orchestrating thread
C17_Witness ==
    /\ pool = "loader" /\ d_pc = "merged"
    /\ Len(db.ds) >= 2

(***************************************************************************)
(* faiss_hotfix                                                            *)
(***************************************************************************)
\* the retry limit of the wrapper: while diff > 0 and trial < 10
MaxTrials == 10

\* vectorstore.index.search(vector, kk): the kk nearest positions, padded
\* with -1 when the index holds fewer than kk vectors; shape (1, kk)
func(kk) == [i \in 1..kk |-> IF i <= ntotal THEN ranking[i] ELSE -1]

\* get_mask = np.vectorize(lambda ar: ar in ok_ids)
get_mask(ids) == [i \in 1..Len(ids) |-> ids[i] \in ok_ids]

\* shape of a (1, kk) array after .squeeze(): () when kk = 1, else (kk,)
SqueezeShape(kk) == IF kk = 1 THEN <<>> ELSE <<kk>>

\* shape of squeezed[mask]: boolean indexing always yields one axis
MaskedShape(ids) == <<Len(ids)>>

\* lines 110-119: first search, filter, and the return of the unfiltered
\* result when nothing was filtered out
SearchFirst ==
    /\ s_pc = "call"
    /\ LET original_ids == func(k)
           new_ids == SelectMask(original_ids, get_mask(original_ids))
           d == k - Len(new_ids)
       IN /\ n_asked' = k
          /\ diff' = d
          /\ trial_ids' = new_ids
          /\ trial' = 0
          /\ IF d < 0
             THEN /\ s_pc' = "raised" /\ s_ret' = <<>> /\ s_path' = "first"
             ELSE IF d = 0
             THEN /\ s_path' = "first"
                  /\ IF SqueezeShape(k) = MaskedShape(new_ids)
                     THEN /\ s_pc' = "returned"
                          /\ s_ret' = [scores |-> <<1, k>>, ids |-> original_ids]
                     ELSE /\ s_pc' = "raised" /\ s_ret' = <<>>
             ELSE /\ s_pc' = "retry" /\ s_ret' = <<>> /\ s_path' = "retry"
    /\ UNCHANGED <<ntotal, ranking, ok_ids, k, mergeVars, poolVars, taskVars>>

\* a retry that asks for the deficit twice over
RetryAskTwice == k + diff + diff

\* the candidate count of one retry: func(vector, k + diff)
RetryAsk == k + diff

\* lines 122-130: one iteration of the retry loop
SearchRetry ==
    /\ s_pc = "retry"
    /\ diff > 0 /\ trial < MaxTrials
    /\ LET ids == func(RetryAsk)
           mask == get_mask(ids)
           kept == SelectMask(ids, mask)
           d == k - Len(kept)
       IN /\ trial' = trial + 1
          /\ n_asked' = RetryAsk
          /\ trial_ids' = kept
          /\ diff' = d
          /\ IF d < 0 THEN s_pc' = "raised" ELSE s_pc' = "retry"
    /\ UNCHANGED <<ntotal, ranking, ok_ids, k, s_path, s_ret, mergeVars, poolVars, taskVars>>

\* a retry path that hands back the unfiltered candidates of the last attempt
RetryResultUnfiltered == func(n_asked)

\* the ids handed back by the retry path: trial_ids.reshape(1, -1)
RetryResult == trial_ids

\* lines 132-136: the loop is left, the filtered result is returned
SearchReturn ==
    /\ s_pc = "retry"
    /\ ~(diff > 0 /\ trial < MaxTrials)
    /\ s_pc' = "returned"
    /\ s_ret' = [scores |-> <<1, Len(RetryResult)>>, ids |-> RetryResult]
    /\ UNCHANGED <<ntotal, ranking, ok_ids, k, trial, diff, trial_ids, n_asked, s_path,
                   mergeVars, poolVars, taskVars>>

InitSearch ==
    /\ MergeIdle /\ PoolIdle /\ TaskIdle
    /\ s_pc = "call"
    /\ ntotal \in 1..MaxVecs
    /\ ranking \in Permutations0(ntotal)
    /\ ok_ids \in SUBSET (0..(ntotal - 1))
    /\ k \in 1..MaxK
    /\ trial = 0 /\ diff = 0 /\ trial_ids = <<>> /\ n_asked = 0
    /\ s_path = "first" /\ s_ret = <<>>

NextSearch == SearchFirst \/ SearchRetry \/ SearchReturn

SpecSearch == InitSearch /\ [][NextSearch]_vars

\* the index is corrupted: some position the search can return is no key
Corrupted == ok_ids # 0..(ntotal - 1)

ReturnedIds == IF s_pc = "returned" THEN Range(s_ret.ids) ELSE {}

(* C1: on a corrupted index, when k is at most the number of valid ids, the
   patched search never raises and returns exactly k ids, all of them valid. *)
C1_ExactlyKValid ==
    (Corrupted /\ k <= Cardinality(ok_ids)) =>
        /\ s_pc # "raised"
        /\ s_pc = "returned" =>
              /\ Len(s_ret.ids) = k
              /\ ReturnedIds \subseteq ok_ids

(* C2: every id the patched search returns is a key of index_to_docstore_id
   as captured by faiss_hotfix, on the unchanged first result and on the
   retry path. *)
C2_ReturnedIdsValid ==
    s_pc = "returned" => \A i \in 1..Len(s_ret.ids) : s_ret.ids[i] \in ok_ids

\* the retry path returned ids after filtering out an invalid candidate
C2_Witness ==
    /\ s_pc = "returned" /\ s_path = "retry"
    /\ s_ret.ids # <<>>
    /\ \E i \in 1..n_asked : func(n_asked)[i] \notin ok_ids

\* the wrapper runs to its end: nothing stops the thread that searches
FairSpecSearch == SpecSearch /\ WF_vars(NextSearch)

(* C26: when the first search keeps fewer than k ids, every retry asks the
   underlying search for k plus the deficit of the latest attempt, there
   are at most 10 retries (11 underlying searches), none once the deficit
   is 0, no retry raises, and the call ends by returning the ids kept by
   the last attempt with scores of the same shape. *)
C26_BoundedRetries ==
    /\ [](trial <= 10)
    /\ [][(s_pc = "retry" /\ trial' # trial) =>
            (diff > 0 /\ trial' = trial + 1 /\ n_asked' = k + diff)]_vars
    /\ [](s_path = "retry" => s_pc # "raised")
    /\ []((s_pc = "returned" /\ s_path = "retry") =>
            /\ diff = 0 \/ trial = 10
            /\ s_ret.ids = trial_ids
            /\ s_ret.scores = <<1, Len(s_ret.ids)>>)
    /\ (s_pc = "retry") ~> (s_pc = "returned")

\* the retry limit was reached with ids still missing
C26_Witness ==
    /\ s_pc = "returned" /\ s_path = "retry"
    /\ trial = 10 /\ diff > 0

(***************************************************************************)
(* The cost check before embedding: load_embeddings, lines 421-451 and     *)
(* 565-572 (WDoc), load_saved_embeddings, lines 262-364 (wdoc).            *)
(***************************************************************************)
MaxTkn == 2
MaxPrice == 2
MaxLimit == 3

\* what the user may type at the prompt
Answers == {"y", "Y", "yes", "Yes", "YES", "n", "no", "", "ok"}

\* str.lower() on the answers
Lower(a) ==
    CASE a = "Y" -> "y"
      [] a \in {"Yes", "YES"} -> "yes"
      [] OTHER -> a

\* a comparison that also fires when the cost equals the limit
ExceedsOrEqual(a, b) == a >= b

\* line 444: dol_price > dollar_limit
Exceeds(a, b) == a > b

dol_price == cost_in.full_tkn * price

CostInputs ==
    [variant : {"WDoc", "wdoc"},
     pricing : {"private", "local", "listed", "unknown"},
     listed : 1..MaxPrice,
     out_cost : {0, 1},
     full_tkn : 0..MaxTkn,
     dollar_limit : 0..MaxLimit]

\* lines 425-440 (WDoc) and 265-287 (wdoc): the price per token
CostPrice ==
    /\ c_pc = "price"
    /\ IF cost_in.pricing \in {"private", "local"}
       THEN price' = 0 /\ c_pc' = "check"
       ELSE IF cost_in.pricing = "listed"
       THEN /\ price' = cost_in.listed
            /\ c_pc' = IF cost_in.out_cost = 0 THEN "check" ELSE "AssertionError"
       ELSE IF cost_in.variant = "WDoc"
       THEN price' = 0 /\ c_pc' = "Exception"
       ELSE price' = 0 /\ c_pc' = "check"
    /\ UNCHANGED <<cost_in, ans, c_events, notCost>>

\* lines 442-444: the cost is compared with the limit
CostCheck ==
    /\ c_pc = "check"
    /\ c_pc' = IF Exceeds(dol_price, cost_in.dollar_limit) THEN "prompt" ELSE "embed"
    /\ UNCHANGED <<cost_in, price, ans, c_events, notCost>>

\* lines 445-448: input(...), and SystemExit unless the answer is y or yes
CostPrompt ==
    /\ c_pc = "prompt"
    /\ \E a \in Answers :
         /\ ans' = a
         /\ c_pc' = IF Lower(a) \notin {"y", "yes"} THEN "SystemExit" ELSE "embed"
    /\ c_events' = Append(c_events, "prompt")
    /\ UNCHANGED <<cost_in, price, notCost>>

\* the names a function body of src/wdoc/utils/embeddings.py can resolve
\* besides its own locals: the parameters of load_saved_embeddings (lines
\* 229-237), its locals and the module's imports and definitions.  The name
\* cached_embeddings is bound in load_embeddings_engine only (line 211)
BoundNames ==
    {"modelname", "embeddings", "save_embeds_as", "load_embeds_from",
     "loaded_docs", "dollar_limit", "private", "db", "docs", "batches",
     "FAISS", "score_function", "red", "whi", "time"}

NameResolves(name) == name \in BoundNames

\* lines 451-563 (WDoc, when there is a document to embed): the saver
\* workers are started and the documents are embedded.  Lines 297-357
\* (wdoc): every use of the engine reads the name cached_embeddings
CostEmbed ==
    /\ c_pc = "embed"
    /\ IF cost_in.variant = "wdoc"
       THEN IF NameResolves("cached_embeddings")
            THEN c_events' = Append(c_events, "provider") /\ c_pc' = "save"
            ELSE c_events' = c_events /\ c_pc' = "NameError"
       ELSE /\ c_events' = IF cost_in.full_tkn > 0
                           THEN c_events \o <<"saver_start", "provider">>
                           ELSE c_events
            /\ c_pc' = "save"
    /\ UNCHANGED <<cost_in, price, ans, notCost>>

\* line 570 (WDoc) and 362 (wdoc): db.save_local(save_embeds_as)
CostSave ==
    /\ c_pc = "save"
    /\ c_events' = Append(c_events, "save_local")
    /\ c_pc' = "returned"
    /\ UNCHANGED <<cost_in, price, ans, notCost>>

InitCost ==
    /\ SearchIdle /\ MergeIdle /\ PoolIdle /\ EmbedIdle /\ ExpireIdle /\ NsIdle
    /\ BatchIdle /\ EvalIdle /\ ScoreIdle /\ MetaIdle /\ CacheIdle
    /\ c_pc = "price"
    /\ cost_in \in CostInputs
    /\ price = 0 /\ ans = "" /\ c_events = <<>>

NextCost == CostPrice \/ CostCheck \/ CostPrompt \/ CostEmbed \/ CostSave

SpecCost == InitCost /\ [][NextCost]_vars

\* event e is among the events so far
Happened(e) == \E i \in 1..Len(c_events) : c_events[i] = e

\* the answers that are 'y' or 'yes' in any case
Affirmative == {"y", "Y", "yes", "Yes", "YES"}

\* the check has compared the cost with the limit
PastCheck ==
    c_pc \in {"prompt", "embed", "save", "returned", "SystemExit", "NameError"}

(* C11: when full_tkn * price exceeds dollar_limit the user is prompted
   before any embedding; unless the answer is y or yes in any case the call
   ends with SystemExit with no provider call, no saver started and nothing
   saved; when the cost does not exceed the limit there is no prompt. *)
C11_CostGate ==
    PastCheck =>
      /\ (cost_in.full_tkn * price > cost_in.dollar_limit /\ c_pc # "prompt")
            => (c_events # <<>> /\ c_events[1] = "prompt")
      /\ (Happened("prompt") /\ ans \notin Affirmative)
            => (c_pc = "SystemExit" /\ c_events = <<"prompt">>)
      /\ (Happened("prompt") /\ ans \in Affirmative) => c_pc # "SystemExit"
      /\ (cost_in.full_tkn * price <= cost_in.dollar_limit) => ~Happened("prompt")

\* the cost exceeds the limit and the prompt was declined
C11_Witness ==
    /\ c_pc = "SystemExit" /\ ans = "no"
    /\ cost_in.full_tkn * price > cost_in.dollar_limit

(***************************************************************************)
(* embed_one_batch and the parallel map over the batches,                  *)
(* load_saved_embeddings, lines 297-352 of src/wdoc/utils/embeddings.py.   *)
(***************************************************************************)
MaxEmbedDocs == 4
\* batch_size = 1000 (line 299), scaled down
batch_size == 2
\* line 309
n_trial == 3

\* lines 300-303: range(len(docs) // batch_size + 1)
Batches(n) == 1..((n \div batch_size) + 1)

\* line 346 (and WDoc line 476), docs[batch[0] : batch[1]] for the b-th
\* pair [i * batch_size, (i + 1) * batch_size], i = b - 1: the positions,
\* counted from 1, of the documents of the slice of a list of n documents
BatchSlice(n, b) ==
    {i \in 1..n : (b - 1) * batch_size < i /\ i <= b * batch_size}

\* what a call of FAISS.from_documents with the engine named by name does:
\* the name is looked up first, then the provider answers or raises
Attempt(name, provider) ==
    IF NameResolves(name) THEN provider ELSE "NameError"

NewBatch ==
    [pc |-> "try", trial |-> 0, cached |-> 0, underlying |-> 0,
     bypass_logged |-> 0, err |-> "none"]

\* lines 312-319: try FAISS.from_documents(batch, cached_embeddings, ...)
EmbedTry(b) ==
    /\ b \in DOMAIN e_batch
    /\ e_batch[b].pc = "try"
    /\ \E provider \in {"ok", "Exception"} :
         LET r == Attempt("cached_embeddings", provider)
             called == IF r = "NameError" THEN 0 ELSE 1
         IN e_batch' = [e_batch EXCEPT
              ![b].cached = @ + called,
              ![b].pc = IF r = "ok" THEN "returned" ELSE "except",
              ![b].err = IF r = "ok" THEN "none" ELSE r]
    /\ UNCHANGED <<e_docs, notEmbed>>

\* lines 320-325 and 333-334: except Exception; the error is printed, and
\* either the fallback is announced or the loop sleeps and tries again
EmbedExcept(b) ==
    /\ b \in DOMAIN e_batch
    /\ e_batch[b].pc = "except"
    /\ IF e_batch[b].trial + 1 >= n_trial
       THEN e_batch' = [e_batch EXCEPT ![b].pc = "fallback",
                                       ![b].bypass_logged = @ + 1]
       ELSE e_batch' = [e_batch EXCEPT ![b].pc = "try", ![b].trial = @ + 1]
    /\ UNCHANGED <<e_docs, notEmbed>>

\* lines 326-332: FAISS.from_documents(batch,
\* cached_embeddings.underlying_embeddings, ...) inside the except clause
EmbedFallback(b) ==
    /\ b \in DOMAIN e_batch
    /\ e_batch[b].pc = "fallback"
    /\ \E provider \in {"ok", "Exception"} :
         LET r == Attempt("cached_embeddings", provider)
             called == IF r = "NameError" THEN 0 ELSE 1
         IN e_batch' = [e_batch EXCEPT
              ![b].underlying = @ + called,
              ![b].pc = IF r = "ok" THEN "returned" ELSE "raised",
              ![b].err = IF r = "ok" THEN "none" ELSE r]
    /\ UNCHANGED <<e_docs, notEmbed>>

InitEmbed ==
    /\ SearchIdle /\ MergeIdle /\ PoolIdle /\ CostIdle /\ ExpireIdle /\ NsIdle
    /\ BatchIdle /\ EvalIdle /\ ScoreIdle /\ MetaIdle /\ CacheIdle
    /\ e_docs \in 0..MaxEmbedDocs
    /\ e_batch = [b \in Batches(e_docs) |-> NewBatch]

NextEmbed ==
    \E b \in Batches(MaxEmbedDocs) : EmbedTry(b) \/ EmbedExcept(b) \/ EmbedFallback(b)

SpecEmbed == InitEmbed /\ [][NextEmbed]_vars

\* the call of embed_one_batch for batch b is over
Ended(b) == e_batch[b].pc \in {"returned", "raised"}

(* C12: embed_one_batch tries the cached engine at most 3 times and returns
   on the first success; after the 3rd consecutive failure, and only then,
   it makes exactly one attempt with the underlying embeddings, which a log
   message reports. *)
C12_RetryThenBypass ==
    \A b \in DOMAIN e_batch :
      /\ e_batch[b].cached <= n_trial /\ e_batch[b].underlying <= 1
      /\ e_batch[b].underlying = 1
           => (e_batch[b].bypass_logged = 1 /\ e_batch[b].trial = n_trial - 1)
      /\ (Ended(b) /\ e_batch[b].bypass_logged = 1) => e_batch[b].underlying = 1

(* C13: whatever the embedding attempts of a batch raise, embed_one_batch
   returns a shard and propagates no exception to the parallel map. *)
C13_NeverFatal == \A b \in DOMAIN e_batch : e_batch[b].pc # "raised"

(* C35: the batches handed to the shard builder partition the documents to
   embed, and every batch holds between 1 and batch_size documents, for
   every number of documents, exact multiples of batch_size included. *)
C35_BatchesPartition ==
    e_docs > 0 =>
    /\ \A i \in 1..e_docs :
         Cardinality({b \in DOMAIN e_batch : i \in BatchSlice(e_docs, b)}) = 1
    /\ \A b \in DOMAIN e_batch :
         /\ Cardinality(BatchSlice(e_docs, b)) >= 1
         /\ Cardinality(BatchSlice(e_docs, b)) <= batch_size

(***************************************************************************)
(* The expiration sweep, load_embeddings, lines 395-419.                   *)
(***************************************************************************)
\* ages and the threshold are in whole days, 0..MaxAge
MaxAge == 2
\* entries per directory
MaxEntries == 2

\* an entry of the byte cache is a file; a shard <hash>.faiss_index is the
\* directory written by FAISS.save_local (lines 616-617 empty it and rmdir
\* it); size is what the sweep adds up for it
CacheEntries == [kind : {"file"}, age : 0..MaxAge, size : {1}]
ShardEntries == [kind : {"dir"}, age : 0..MaxAge, size : {2}]
                    \cup [kind : {"file"}, age : 0..MaxAge, size : {1}]

Listings(S) == UNION {[1..n -> S] : n \in 0..MaxEntries}

\* line 406: days_since_last_access >= WDOC_EXPIRE_CACHE_DAYS
Expired(entry, days) == entry.age >= days

\* line 412: Path.unlink removes a file and raises on a directory
unlink(entry) == IF entry.kind = "dir" THEN "IsADirectoryError" ELSE "none"

NewLoop(i) == [i |-> i, j |-> 1, n_total |-> 0, n_cleaned |-> 0, space_retrieved |-> 0]

\* lines 395-400: nothing is swept when WDOC_EXPIRE_CACHE_DAYS is 0
ExpireStart ==
    /\ x_pc = "start"
    /\ x_pc' = IF x_in.days = 0 THEN "done" ELSE "sweep"
    /\ UNCHANGED <<x_in, x_fs, x_loop, x_report, x_err, notExpire>>

\* lines 404-412: one entry of the directory being swept
ExpireEntry ==
    /\ x_pc = "sweep"
    /\ x_loop.j <= Len(x_in.dirs[x_loop.i])
    /\ LET entry == x_in.dirs[x_loop.i][x_loop.j]
           seen == [x_loop EXCEPT !.j = @ + 1, !.n_total = @ + 1]
       IN IF ~Expired(entry, x_in.days)
          THEN x_loop' = seen /\ UNCHANGED <<x_pc, x_fs, x_err>>
          ELSE /\ x_loop' = [seen EXCEPT !.n_cleaned = @ + 1,
                                         !.space_retrieved = @ + entry.size]
               /\ IF unlink(entry) = "none"
                  THEN /\ x_fs' = [x_fs EXCEPT ![x_loop.i] = @ \ {x_loop.j}]
                       /\ UNCHANGED <<x_pc, x_err>>
                  ELSE /\ x_pc' = "raised" /\ x_err' = unlink(entry)
                       /\ UNCHANGED x_fs
    /\ UNCHANGED <<x_in, x_report, notExpire>>

\* lines 413-416: the report of one directory, then the next directory
ExpireReport ==
    /\ x_pc = "sweep"
    /\ x_loop.j > Len(x_in.dirs[x_loop.i])
    /\ x_report' = Append(x_report, [n_cleaned |-> x_loop.n_cleaned,
                                     n_total |-> x_loop.n_total,
                                     space_retrieved |-> x_loop.space_retrieved])
    /\ IF x_loop.i = 2
       THEN x_pc' = "done" /\ UNCHANGED x_loop
       ELSE x_loop' = NewLoop(2) /\ UNCHANGED x_pc
    /\ UNCHANGED <<x_in, x_fs, x_err, notExpire>>

InitExpire ==
    /\ SearchIdle /\ MergeIdle /\ PoolIdle /\ CostIdle /\ EmbedIdle /\ NsIdle
    /\ BatchIdle /\ EvalIdle /\ ScoreIdle /\ MetaIdle /\ CacheIdle
    /\ x_pc = "start"
    /\ x_in \in [days : 0..MaxAge,
                 dirs : {<<c, f>> : c \in Listings(CacheEntries),
                                    f \in Listings(ShardEntries)}]
    /\ x_fs = [i \in 1..2 |-> DOMAIN x_in.dirs[i]]
    /\ x_loop = NewLoop(1)
    /\ x_report = <<>> /\ x_err = "none"

NextExpire == ExpireStart \/ ExpireEntry \/ ExpireReport

SpecExpire == InitExpire /\ [][NextExpire]_vars

\* the entries of directory i that are due: last accessed days ago or more
Due(i) == {j \in DOMAIN x_in.dirs[i] : x_in.dirs[i][j].age >= x_in.days}

RECURSIVE SumSize(_, _)
SumSize(i, J) ==
    IF J = {} THEN 0
    ELSE LET j == CHOOSE x \in J : TRUE
         IN x_in.dirs[i][j].size + SumSize(i, J \ {j})

(* C14: with a non-zero threshold the sweep of the byte cache and of the
   shard directory deletes exactly the entries last accessed threshold days
   ago or more, keeps the others, and reports the number removed and the
   bytes reclaimed, without raising; with a zero threshold nothing is
   deleted. *)
C14_SweepDeletesExpired ==
    /\ x_pc # "raised"
    /\ x_pc = "done" =>
         IF x_in.days = 0
         THEN \A i \in 1..2 : x_fs[i] = DOMAIN x_in.dirs[i]
         ELSE \A i \in 1..2 :
                /\ x_fs[i] = DOMAIN x_in.dirs[i] \ Due(i)
                /\ x_report[i].n_cleaned = Cardinality(Due(i))
                /\ x_report[i].space_retrieved = SumSize(i, Due(i))

(***************************************************************************)
(* The cache namespace embed_model_str, load_embeddings, lines 159-165 and *)
(* 242-255.  A string is a sequence of symbols; a backend name or a word   *)
(* of a model name is one symbol, "/" and "_" are symbols of their own.    *)
(***************************************************************************)
MaxNameLen == 3

Backends == {"openai", "huggingface"}
Symbols == {"m", "openai", "/", "_"}

\* the part of s before its first sep: s.split(sep, 1)[0]
RECURSIVE SplitHead(_, _)
SplitHead(s, sep) ==
    IF s = <<>> \/ Head(s) = sep THEN <<>>
    ELSE <<Head(s)>> \o SplitHead(Tail(s), sep)

\* s.replace(sub, by), every occurrence from left to right, sub not empty
RECURSIVE Replace(_, _, _)
Replace(s, sub, by) ==
    IF Len(s) < Len(sub) THEN s
    ELSE IF SubSeq(s, 1, Len(sub)) = sub
    THEN by \o Replace(SubSeq(s, Len(sub) + 1, Len(s)), sub, by)
    ELSE <<Head(s)>> \o Replace(Tail(s), sub, by)

Contains(s, c) == \E i \in 1..Len(s) : s[i] = c

\* line 246: f.read() + str(instruct) adds a str to bytes
HashOfFile(instruct) == "TypeError"

\* lines 159-161
ParseBackend(id) == SplitHead(id, "/")
ParseModel(id) == Replace(id, ParseBackend(id) \o <<"/">>, <<>>)
ModelStr(model) == Replace(model, <<"/">>, <<"_">>)

\* lines 242-253 on the parsed model
LocalFileStr(cfg, model, str) ==
    IF Contains(model, "/") /\ cfg.exists /\ HashOfFile(cfg.instruct) # "TypeError"
    THEN <<"name", "_", "hash", cfg.instruct>>
    ELSE str

PrivateStr(cfg, str) == IF cfg.private THEN <<"private", "_">> \o str ELSE str

\* the namespace load_embeddings computes for a configuration
Namespace(cfg) ==
    PrivateStr(cfg, LocalFileStr(cfg, ParseModel(cfg.id), ModelStr(ParseModel(cfg.id))))

\* the model identifiers: a backend, "/", and a name of 1..MaxNameLen symbols
Names == UNION {[1..n -> Symbols] : n \in 1..MaxNameLen}
ModelIds == {<<b, "/">> \o nm : b \in Backends, nm \in Names}

Configs == [id : ModelIds, instruct : BOOLEAN, private : BOOLEAN, exists : BOOLEAN]

\* lines 159-161
NsParse ==
    /\ n_pc = "parse"
    /\ backend' = ParseBackend(n_cfg.id)
    /\ embed_model' = ParseModel(n_cfg.id)
    /\ embed_model_str' = ModelStr(ParseModel(n_cfg.id))
    /\ n_pc' = "local_file"
    /\ UNCHANGED <<n_cfg, notNs>>

\* lines 242-252: a model given as a path of the disk; except Exception: pass
NsLocalFile ==
    /\ n_pc = "local_file"
    /\ embed_model_str' = LocalFileStr(n_cfg, embed_model, embed_model_str)
    /\ n_pc' = "private"
    /\ UNCHANGED <<n_cfg, backend, embed_model, notNs>>

\* lines 253-255
NsPrivate ==
    /\ n_pc = "private"
    /\ embed_model_str' = PrivateStr(n_cfg, embed_model_str)
    /\ n_pc' = "done"
    /\ UNCHANGED <<n_cfg, backend, embed_model, notNs>>

InitNs ==
    /\ SearchIdle /\ MergeIdle /\ PoolIdle /\ CostIdle /\ EmbedIdle /\ ExpireIdle
    /\ BatchIdle /\ EvalIdle /\ ScoreIdle /\ MetaIdle /\ CacheIdle
    /\ n_pc = "parse"
    /\ n_cfg \in Configs
    /\ backend = <<>> /\ embed_model = <<>> /\ embed_model_str = <<>>

NextNs == NsParse \/ NsLocalFile \/ NsPrivate

SpecNs == InitNs /\ [][NextNs]_vars

(* C15: two configurations that differ in the model identifier or in the
   instruction-mode flag never get the same namespace embed_model_str, and
   identical configurations always get the same one. *)
C15_NamespacePerConfiguration ==
    n_pc = "done" =>
      /\ embed_model_str = Namespace(n_cfg)
      /\ \A other \in Configs :
           (other.id # n_cfg.id \/ other.instruct # n_cfg.instruct)
             => Namespace(other) # embed_model_str

(***************************************************************************)
(* semantic_batching (src/WDoc/utils/tasks/query.py, lines 151-344): one   *)
(* call.  A text is a name in 1..NTexts: the function looks at a text only *)
(* through equality, get_tkn_length and embed_query.  The token length of  *)
(* a text is drawn from TokenLengths.  An embedding is a point of a line,  *)
(* named by its coordinate, so that the euclidean distance of line 208 is  *)
(* the difference of two coordinates.  scipy's linkage and fcluster are    *)
(* not computed: the leaf order is the order of the points along the line  *)
(* and the flat clusters are any cut of that order into consecutive runs,  *)
(* which is what a cut of a dendrogram with optimal leaf ordering gives.   *)
(***************************************************************************)
NTexts == 5
\* input lists of at most ShortLen texts are enumerated in full
ShortLen == 3
MaxInput == NTexts + 1
Texts == 1..NTexts

\* line 273
max_token == 500
\* the values get_tkn_length returns in the model
TokenLengths == {100, 300, 600}

\* lines 167-169: temp = []; [temp.append(t) for t in texts if t not in temp]
RECURSIVE Deduplicate(_, _)
Deduplicate(ts, temp) ==
    IF ts = <<>> THEN temp
    ELSE Deduplicate(Tail(ts),
                     IF Head(ts) \in Range(temp) THEN temp
                     ELSE Append(temp, Head(ts)))

SmallUnderFour(n) == n < 4

\* line 171: if len(texts) < 5
Small(n) == n < 5

\* texts.index(t)
IndexOf(ts, t) == CHOOSE i \in 1..Len(ts) : ts[i] = t /\ \A j \in 1..(i - 1) : ts[j] # t

\* an input list whose texts are named in the order of their first appearance
Canonical(s) ==
    \A i \in 1..Len(s) : \A v \in 1..(s[i] - 1) : \E j \in 1..(i - 1) : s[j] = v

\* the lists given to semantic_batching: every short list, and the longer
\* ones up to the names of their texts
InputTexts ==
    {s \in UNION {[1..n -> Texts] : n \in 1..MaxInput} :
        Len(s) <= ShortLen \/ Canonical(s)}

\* lines 164-172: the assertion on the input (a list of at least one text,
\* as every caller gives), the deduplication and the early return
BatchDeduplicate ==
    /\ b_pc = "call"
    /\ texts # <<>>
    /\ texts' = Deduplicate(texts, <<>>)
    /\ IF Small(Len(texts'))
       THEN buckets' = <<texts'>> /\ b_pc' = "returned"
       ELSE buckets' = buckets /\ b_pc' = "embed"
    /\ UNCHANGED <<n_embed_query, embeds, order, cluster_labels, text_sizes,
                   b_err, notBatch>>

\* the answers of the embedding engine for n texts: n distinct points of a
\* line, at the coordinates 0..n-1 in one of the n rotations
Placements(n) == {[i \in 1..n |-> (i - 1 + r) % n] : r \in 0..(n - 1)}

\* lines 205-218: pd_dist, the euclidean distance of two embeddings
pd_dist(e, i, j) == IF e[i] >= e[j] THEN e[i] - e[j] ELSE e[j] - e[i]

\* line 228: leaves_list(Z), the indexes of the texts along the line
leaves_list(e) == [p \in 1..Len(e) |-> CHOOSE i \in 1..Len(e) : e[i] = p - 1]

\* lines 175-228: one embed_query per text, then distances, linkage, order.
\* (The dimension reduction of lines 182-203 is left out: it changes the
\* distances, and the distances are drawn here.)
BatchEmbed ==
    /\ b_pc = "embed"
    /\ n_embed_query' = n_embed_query + Len(texts)
    /\ \E e \in Placements(Len(texts)) :
         /\ embeds' = e
         /\ order' = leaves_list(e)
    /\ b_pc' = "cluster"
    /\ UNCHANGED <<texts, cluster_labels, text_sizes, buckets, b_err, notBatch>>

\* line 240
Dividers == {2, 3, 4, 5}

\* the cuts of the leaf order fcluster(Z, maxclust, criterion='maxclust') can
\* make: at most maxclust runs (a cut after position c for every c of the set)
FlatClusters(n, maxclust) ==
    {cuts \in SUBSET (1..(n - 1)) : Cardinality(cuts) + 1 <= maxclust \/ cuts = {}}

\* the position of text index i in the leaf order
LeafPosition(ord, i) == CHOOSE p \in 1..Len(ord) : ord[p] = i

\* the label fcluster gives each text: the number of its run
LabelsOf(ord, cuts) ==
    [i \in 1..Len(ord) |-> 1 + Cardinality({c \in cuts : c < LeafPosition(ord, i)})]

\* lines 240-250: cluster with maxclust = n // divider until more than one
\* label comes out; one label for every divider fails the assertion
BatchCluster ==
    /\ b_pc = "cluster"
    /\ \E divider \in Dividers :
         \E cuts \in FlatClusters(Len(texts), Len(texts) \div divider) :
            /\ cuts = {} => divider = 5
            /\ cluster_labels' = LabelsOf(order, cuts)
            /\ IF cuts = {}
               THEN b_pc' = "AssertionError" /\ b_err' = "len(labels) > 1 (250)"
               ELSE b_pc' = "singletons" /\ b_err' = b_err
    /\ UNCHANGED <<texts, n_embed_query, embeds, order, text_sizes, buckets, notBatch>>

\* np.unique(cluster_labels)
Unique(cl) == Range(cl)

\* (cluster_labels == lab).sum()
CountOf(cl, lab) == Cardinality({i \in DOMAIN cl : cl[i] = lab})

\* np.argmax(cluster_labels == lab): the first text of the cluster
FirstOf(cl, lab) == CHOOSE i \in DOMAIN cl : cl[i] = lab /\ \A j \in 1..(i - 1) : cl[j] # lab

\* line 256: np.argmin of the row of pd_dist: the first index at the
\* smallest distance of text i, the diagonal included
ArgMinRow(e, i) ==
    CHOOSE j \in DOMAIN e :
        /\ \A m \in DOMAIN e : pd_dist(e, i, j) <= pd_dist(e, i, m)
        /\ \A m \in 1..(j - 1) : pd_dist(e, i, m) > pd_dist(e, i, j)

\* lines 254-264: the body of the loop for one label lab, on the labels st.cl;
\* labels is the array computed before the loop
SingletonStep(st, lab, e, labels) ==
    IF st.err # "none" \/ CountOf(st.cl, lab) # 1 THEN st
    ELSE LET t == FirstOf(st.cl, lab)
             t_closest == ArgMinRow(e, t)
             l_closest == st.cl[t_closest]
         IN IF CountOf(st.cl, l_closest) + 1 = Len(st.cl)
            THEN IF Cardinality(labels) # 2
                 THEN [st EXCEPT !.exc = "AssertionError",
                                 !.err = "len(labels) == 2 (261)"]
                 \* line 262: texts.index(t_closest) looks an integer up in
                 \* a list of strings
                 ELSE [st EXCEPT !.exc = "ValueError",
                                 !.err = "texts.index(t_closest) (262)"]
            ELSE [st EXCEPT !.cl = [i \in DOMAIN st.cl |->
                                      IF st.cl[i] = lab THEN l_closest ELSE st.cl[i]]]

\* line 253: for lab in labels, in increasing order
RECURSIVE SingletonLoop(_, _, _, _)
SingletonLoop(st, todo, e, labels) ==
    IF todo = {} THEN st
    ELSE LET lab == CHOOSE l \in todo : \A m \in todo : l <= m
         IN SingletonLoop(SingletonStep(st, lab, e, labels), todo \ {lab}, e, labels)

\* lines 252-267: no cluster of one text, and more than one cluster
BatchSingletons ==
    /\ b_pc = "singletons"
    /\ LET labels == Unique(cluster_labels)
           st == SingletonLoop([cl |-> cluster_labels, exc |-> "none", err |-> "none"],
                               labels, embeds, labels)
       IN /\ cluster_labels' = st.cl
          /\ IF st.err # "none"
             THEN b_pc' = st.exc /\ b_err' = st.err
             ELSE IF Cardinality(Unique(st.cl)) > 1
                  THEN b_pc' = "pack" /\ b_err' = b_err
                  ELSE b_pc' = "AssertionError" /\ b_err' = "len(labels) > 1 (267)"
    /\ UNCHANGED <<texts, n_embed_query, embeds, order, text_sizes, buckets, notBatch>>

\* the state of the packing loop: the local variables of lines 270-272
NewPacking == [buckets |-> <<>>, cur |-> <<>>, tokens |-> 0, err |-> "none"]

\* lines 281-289: one text, named by its index i in texts
PackText(st, i, ts, sizes) ==
    IF st.tokens + sizes[i] > max_token
    THEN [st EXCEPT !.buckets = Append(@, st.cur), !.cur = <<ts[i]>>, !.tokens = 0]
    ELSE [st EXCEPT !.cur = Append(@, ts[i]), !.tokens = @ + sizes[i]]

\* line 280: for clustid in lab_mask, in increasing index
RECURSIVE PackTexts(_, _, _, _)
PackTexts(st, todo, ts, sizes) ==
    IF todo = {} THEN st
    ELSE LET i == CHOOSE x \in todo : \A y \in todo : x <= y
         IN PackTexts(PackText(st, i, ts, sizes), todo \ {i}, ts, sizes)

CloseBucketDropped(bs, cur) == bs

\* line 291: buckets.append(current_bucket)
CloseBucket(bs, cur) == Append(bs, cur)

\* lines 278-293: the body of the loop for one label
PackCluster(st, lab, cl, ts, sizes) ==
    IF st.err # "none" THEN st
    ELSE IF ~(CountOf(cl, lab) > 1)
    THEN [st EXCEPT !.err = "len(lab_mask) > 1 (279)"]
    ELSE LET filled == PackTexts(st, {i \in DOMAIN cl : cl[i] = lab}, ts, sizes)
         IN [filled EXCEPT !.buckets = CloseBucket(@, filled.cur),
                           !.cur = <<>>, !.tokens = 0]

\* line 277: for lab in labels, in increasing order
RECURSIVE PackLoop(_, _, _, _, _)
PackLoop(st, todo, cl, ts, sizes) ==
    IF todo = {} THEN st
    ELSE LET lab == CHOOSE l \in todo : \A m \in todo : l <= m
         IN PackLoop(PackCluster(st, lab, cl, ts, sizes), todo \ {lab}, cl, ts, sizes)

\* line 296: sum(text_sizes[t] for t in bucket)
RECURSIVE BucketTokens(_, _, _)
BucketTokens(b, ts, sizes) ==
    IF b = <<>> THEN 0
    ELSE sizes[IndexOf(ts, Head(b))] + BucketTokens(Tail(b), ts, sizes)

\* line 300: sorted(b, key=lambda t: order[texts.index(t)])
RECURSIVE SortedByOrder(_, _, _)
SortedByOrder(S, ord, ts) ==
    IF S = {} THEN <<>>
    ELSE LET t == CHOOSE x \in S :
                    \A y \in S : ord[IndexOf(ts, x)] <= ord[IndexOf(ts, y)]
         IN <<t>> \o SortedByOrder(S \ {t}, ord, ts)

\* lines 270-300: greedy packing of each cluster, the two assertions on the
\* buckets, and the sort of each bucket
BatchPack ==
    /\ b_pc = "pack"
    /\ \E sizes \in [1..Len(texts) -> TokenLengths] :
         LET st == PackLoop(NewPacking, Unique(cluster_labels), cluster_labels,
                            texts, sizes)
             raised == IF st.err # "none" THEN st.err
                       ELSE IF \E q \in 1..Len(st.buckets) : st.buckets[q] = <<>>
                       THEN "Empty buckets (294)"
                       ELSE IF \E q \in 1..Len(st.buckets) :
                                  ~(BucketTokens(st.buckets[q], texts, sizes) <= max_token)
                       THEN "sum(text_sizes) <= max_token (296)"
                       ELSE "none"
         IN /\ text_sizes' = sizes
            /\ IF raised # "none"
               THEN /\ buckets' = st.buckets
                    /\ b_pc' = "AssertionError" /\ b_err' = raised
               ELSE /\ buckets' = [q \in 1..Len(st.buckets) |->
                                     SortedByOrder(Range(st.buckets[q]), order, texts)]
                    /\ b_pc' = "rebalance" /\ b_err' = b_err
    /\ UNCHANGED <<texts, n_embed_query, embeds, order, cluster_labels, notBatch>>

\* lines 310-320: the bucket a bucket of one text is merged with.  For a
\* bucket that is not the first, line 313 looks the text t_cur up as a label
\* of pd_dist, whose labels are the integers of line 206 (KeyError), after
\* min() was given the empty list when the previous bucket is empty
\* (ValueError); ib is never len(buckets), so line 319 is never reached
next_id(bk, ib) ==
    IF ib = 1 THEN [id |-> ib + 1, exc |-> "none", err |-> "none"]
    ELSE IF bk[ib - 1] = <<>>
    THEN [id |-> 0, exc |-> "ValueError", err |-> "min([]) (313)"]
    ELSE [id |-> 0, exc |-> "KeyError", err |-> "pd_dist.loc[t_cur, t] (313)"]

\* lines 323-334: both buckets hold one text, or the neighbour gives one
MergeSingleton(bk, ib, nid) ==
    IF Len(bk[nid]) = 1
    THEN IF nid > ib
         THEN [bk EXCEPT ![nid] = <<bk[ib][1]>> \o @, ![ib] = <<>>]
         ELSE [bk EXCEPT ![nid] = Append(@, bk[ib][1]), ![ib] = <<>>]
    ELSE IF nid > ib
         THEN [bk EXCEPT ![ib] = Append(@, Head(bk[nid])), ![nid] = Tail(@)]
         ELSE [bk EXCEPT ![ib] = Append(@, bk[nid][Len(bk[nid])]),
                         ![nid] = SubSeq(@, 1, Len(@) - 1)]

\* lines 305-335: the body of the loop for the bucket at position ib
RebalanceStep(st, ib, ts, sizes) ==
    IF st.err # "none" THEN st
    ELSE LET b == st.bk[ib]
         IN IF b = <<>>
            THEN [st EXCEPT !.exc = "AssertionError", !.err = "b (305)"]
            ELSE IF Len(b) # 1 THEN st
            ELSE IF ~(sizes[IndexOf(ts, b[1])] > max_token)
            THEN [st EXCEPT !.exc = "AssertionError",
                            !.err = "text_sizes[b[0]] > max_token (307)"]
            ELSE LET nx == next_id(st.bk, ib)
                 IN IF nx.err # "none"
                    THEN [st EXCEPT !.exc = nx.exc, !.err = nx.err]
                    ELSE IF nx.id > Len(st.bk)
                    THEN [st EXCEPT !.exc = "IndexError",
                                    !.err = "buckets[next_id] (321)"]
                    ELSE IF st.bk[nx.id] = <<>>
                    THEN [st EXCEPT !.exc = "AssertionError",
                                    !.err = "buckets[next_id] (321)"]
                    ELSE [st EXCEPT !.bk = MergeSingleton(@, ib, nx.id)]

\* line 304: for ib, b in enumerate(buckets)
RECURSIVE RebalanceLoop(_, _, _, _)
RebalanceLoop(st, ib, ts, sizes) ==
    IF ib > Len(st.bk) THEN st
    ELSE RebalanceLoop(RebalanceStep(st, ib, ts, sizes), ib + 1, ts, sizes)

\* line 337: buckets = [b for b in buckets if b]
NonEmpty(bk) == SelectSeq(bk, LAMBDA b : b # <<>>)

\* lines 339-340: unchained, the texts of all buckets in one list
RECURSIVE Unchained(_)
Unchained(bk) == IF bk = <<>> THEN <<>> ELSE Head(bk) \o Unchained(Tail(bk))

\* lines 304-344: the buckets of one text, the final assertions, the return
BatchRebalance ==
    /\ b_pc = "rebalance"
    /\ LET st == RebalanceLoop([bk |-> buckets, exc |-> "none", err |-> "none"],
                               1, texts, text_sizes)
           kept == NonEmpty(st.bk)
           unchained == Unchained(kept)
           raised == IF st.err # "none" THEN st.err
                     ELSE IF \E q \in 1..Len(kept) : ~(Len(kept[q]) >= 2)
                     THEN "Invalid size of buckets (338)"
                     ELSE IF Len(unchained) # Cardinality(Range(unchained))
                     THEN "There were duplicate texts in buckets! (341)"
                     ELSE IF \E t \in Range(unchained) : t \notin Range(texts)
                     THEN "Some text of buckets were added! (342)"
                     ELSE "none"
       IN IF raised # "none"
          THEN /\ buckets' = st.bk
               /\ b_pc' = (IF st.err # "none" THEN st.exc ELSE "AssertionError")
               /\ b_err' = raised
          ELSE /\ buckets' = kept
               /\ b_pc' = "returned" /\ b_err' = b_err
    /\ UNCHANGED <<texts, n_embed_query, embeds, order, cluster_labels, text_sizes,
                   notBatch>>

InitBatch ==
    /\ SearchIdle /\ MergeIdle /\ PoolIdle /\ CostIdle /\ EmbedIdle /\ ExpireIdle
    /\ NsIdle /\ EvalIdle /\ ScoreIdle /\ MetaIdle /\ CacheIdle
    /\ b_pc = "call"
    /\ texts \in InputTexts
    /\ n_embed_query = 0 /\ embeds = <<>> /\ order = <<>> /\ cluster_labels = <<>>
    /\ text_sizes = <<>> /\ buckets = <<>> /\ b_err = "none"

NextBatch ==
    \/ BatchDeduplicate \/ BatchEmbed \/ BatchCluster \/ BatchSingletons
    \/ BatchPack \/ BatchRebalance

SpecBatch == InitBatch /\ [][NextBatch]_vars

\* the distinct texts of a list in the order of their first appearance
FirstSeen(r, s) ==
    /\ Range(r) = Range(s)
    /\ Len(r) = Cardinality(Range(s))
    /\ \A i, j \in 1..Len(r) : i < j => IndexOf(s, r[i]) < IndexOf(s, r[j])

(* C19: when the input holds fewer than 5 distinct texts, the call returns
   at once exactly one bucket, which holds the distinct texts in the order
   of their first appearance, and embed_query has not been called. *)
C19_FewTextsOneBucket ==
    [][ (b_pc = "call" /\ Cardinality(Range(texts)) < 5) =>
          /\ b_pc' = "returned"
          /\ Len(buckets') = 1 /\ FirstSeen(buckets'[1], texts)
          /\ n_embed_query' = 0
      ]_vars

C19_Witness ==
    /\ b_pc = "returned" /\ n_embed_query = 0
    /\ buckets = << <<2, 1, 3>> >>

\* how many times text t is held by the buckets
Occurrences(t) ==
    Cardinality({<<q, p>> \in (1..Len(buckets)) \X (1..MaxInput) :
                    p <= Len(buckets[q]) /\ buckets[q][p] = t})

(* C20: the returned buckets partition the deduplicated input: texts is
   rebound to the distinct texts of the input, and at the return every one
   of them is held exactly once by the buckets, which hold nothing else. *)
C20_BucketsPartition ==
    /\ [][b_pc = "call" => FirstSeen(texts', texts)]_vars
    /\ [](b_pc = "returned" =>
            /\ \A t \in Range(texts) : Occurrences(t) = 1
            /\ \A q \in 1..Len(buckets) : Range(buckets[q]) \subseteq Range(texts))

C20_Witness ==
    /\ b_pc = "returned" /\ n_embed_query = Len(texts)
    /\ Len(buckets) >= 2

\* the packing loop has run: buckets holds what it built, before any merge
Packed ==
    \/ b_pc = "rebalance"
    \/ b_pc = "AssertionError" /\ b_err \in {"Empty buckets (294)",
                                            "sum(text_sizes) <= max_token (296)"}

\* the tokens of the text t
SizeOf(t) == text_sizes[IndexOf(texts, t)]

(* C21: every bucket the packing builds holds at most max_token = 500
   tokens in total, unless it is one text of more than 500 tokens, and the
   assertion of line 296 on the totals never fails. *)
C21_BucketTotalsWithinBudget ==
    /\ b_err # "sum(text_sizes) <= max_token (296)"
    /\ Packed =>
         \A q \in 1..Len(buckets) :
            \/ BucketTokens(buckets[q], texts, text_sizes) <= max_token
            \/ Len(buckets[q]) = 1 /\ SizeOf(buckets[q][1]) > max_token

\* the call has ended: it returned or it raised
BatchEnded == b_pc \notin {"idle", "call", "embed", "cluster", "singletons",
                           "pack", "rebalance"}

\* the texts of more than max_token tokens
Oversized == {i \in DOMAIN text_sizes : text_sizes[i] > max_token}

\* every cluster holds at least two texts when the packing starts
ClustersOfTwo ==
    /\ cluster_labels # <<>>
    /\ Cardinality(Unique(cluster_labels)) > 1
    /\ \A lab \in Unique(cluster_labels) : CountOf(cluster_labels, lab) > 1

\* the bucket of the returned list that holds text t
BucketOf(t) == CHOOSE q \in 1..Len(buckets) : t \in Range(buckets[q])

(* C22: with at least 5 distinct texts of which one alone has more than 500
   tokens (the others being short, in clusters of two texts or more), the
   call returns without raising, the long text shares its bucket with other
   texts, and no returned bucket holds one text only. *)
C22_OversizedTextMerged ==
    ( /\ BatchEnded /\ Len(texts) >= 5 /\ ClustersOfTwo
      /\ Cardinality(Oversized) = 1
      /\ \A i \in DOMAIN text_sizes : i \notin Oversized => text_sizes[i] = 100 )
    => /\ b_pc = "returned"
       /\ \A q \in 1..Len(buckets) : Len(buckets[q]) # 1
       /\ \A i \in Oversized : Len(buckets[BucketOf(texts[i])]) >= 2

(* C23: with at least 5 distinct texts (none above the budget, the clusters
   holding two texts or more), the call returns at least 2 buckets, none of
   them empty and none of one text. *)
C23_AtLeastTwoBuckets ==
    ( /\ BatchEnded /\ Len(texts) >= 5 /\ ClustersOfTwo
      /\ text_sizes # <<>> /\ Oversized = {}
      /\ b_err # "sum(text_sizes) <= max_token (296)" )
    => /\ b_pc = "returned"
       /\ Len(buckets) >= 2
       /\ \A q \in 1..Len(buckets) : Len(buckets[q]) >= 2

(***************************************************************************)
(* refilter_docs and parse_eval_output (src/WDoc/utils/tasks/query.py,     *)
(* lines 48-103): one call.  An evaluation is the text the eval LLM gave;  *)
(* a document is named by its index in unfiltered_docs.                    *)
(***************************************************************************)
MaxEvalDocs == 2

\* the texts an evaluation can be, an optional thinking block first
EvalItems == {"0", "7", "-5", "abc"}
EvalOutputs == EvalItems \cup {"", "  ", "07", "<thinking>t</thinking>7",
                               "<thinking>t</thinking>abc"}

\* output.strip()
strip(o) == IF o = "  " THEN "" ELSE o

\* lines 67 and 92: thinking_answer_parser(ev), the text split into the
\* thinking block and the answer that follows it
thinking_answer_parser(o) ==
    IF o = "<thinking>t</thinking>7" THEN [thinking |-> "t", answer |-> "7"]
    ELSE IF o = "<thinking>t</thinking>abc" THEN [thinking |-> "t", answer |-> "abc"]
    ELSE [thinking |-> "", answer |-> o]

\* int(a) returns: a is an optional sign and decimal digits
Parses(a) == a \in {"0", "7", "07", "-5"}

\* lines 70 and 99: int(a), for an a that parses
int(a) == IF a = "0" THEN 0 ELSE IF a = "-5" THEN 0 - 5 ELSE 7

\* line 100: str(answer)
str(n) == IF n = 0 THEN "0" ELSE IF n = 7 THEN "7" ELSE IF n = 5 THEN "5" ELSE "-5"

\* lines 69-74: try: a = int(a) / except Exception: a = 5
AnswerOrFive(a) == IF Parses(a) THEN int(a) ELSE 5

\* the evaluations of one document: one text, or a list of one or two
DocEvals ==
    [list : {FALSE}, evals : {<<a>> : a \in EvalItems}]
    \cup [list : {TRUE}, evals : UNION {[1..n -> EvalItems] : n \in 1..2}]

\* line 76: sum(answers)
RECURSIVE SumAnswers(_)
SumAnswers(evals) ==
    IF evals = <<>> THEN 0
    ELSE AnswerOrFive(thinking_answer_parser(Head(evals)).answer)
         + SumAnswers(Tail(evals))

EvalInputs ==
    [fn : {"refilter_docs"}, output : {""},
     evaluations : UNION {[1..n -> DocEvals] : n \in 0..MaxEvalDocs}]
    \cup [fn : {"parse_eval_output"}, output : EvalOutputs, evaluations : {<<>>}]

\* lines 52-62: the assertions hold (two lists of one length); no document
RefilterStart ==
    /\ v_pc = "start" /\ v_in.fn = "refilter_docs"
    /\ v_pc' = IF v_in.evaluations = <<>> THEN "NoDocumentsRetrieved" ELSE "loop"
    /\ UNCHANGED <<v_in, v_ie, filtered_docs, v_ret, notEval>>

\* lines 64-77: one document of the loop
RefilterDoc ==
    /\ v_pc = "loop"
    /\ v_ie < Len(v_in.evaluations)
    /\ v_ie' = v_ie + 1
    /\ filtered_docs' = IF SumAnswers(v_in.evaluations[v_ie'].evals) # 0
                        THEN Append(filtered_docs, v_ie')
                        ELSE filtered_docs
    /\ UNCHANGED <<v_pc, v_in, v_ret, notEval>>

\* lines 79-82: nothing kept raises, else the kept documents are returned
RefilterEnd ==
    /\ v_pc = "loop"
    /\ v_ie = Len(v_in.evaluations)
    /\ IF filtered_docs = <<>>
       THEN v_pc' = "NoDocumentsAfterLLMEvalFiltering" /\ v_ret' = v_ret
       ELSE v_pc' = "returned" /\ v_ret' = filtered_docs
    /\ UNCHANGED <<v_in, v_ie, filtered_docs, notEval>>

\* lines 86-103: parse_eval_output (the lines after 103 are never reached)
ParseEvalOutput ==
    /\ v_pc = "start" /\ v_in.fn = "parse_eval_output"
    /\ IF strip(v_in.output) = ""
       THEN v_pc' = "InvalidDocEvaluationByLLMEval" /\ v_ret' = v_ret
       ELSE LET answer == thinking_answer_parser(v_in.output).answer
            IN /\ v_pc' = "returned"
               /\ v_ret' = IF Parses(answer) THEN str(int(answer)) ELSE str(5)
    /\ UNCHANGED <<v_in, v_ie, filtered_docs, notEval>>

InitEval ==
    /\ SearchIdle /\ MergeIdle /\ PoolIdle /\ CostIdle /\ EmbedIdle /\ ExpireIdle
    /\ NsIdle /\ BatchIdle /\ ScoreIdle /\ MetaIdle /\ CacheIdle
    /\ v_pc = "start"
    /\ v_in \in EvalInputs
    /\ v_ie = 0 /\ filtered_docs = <<>> /\ v_ret = <<>>

NextEval == RefilterStart \/ RefilterDoc \/ RefilterEnd \/ ParseEvalOutput

SpecEval == InitEval /\ [][NextEval]_vars

\* document ie has an evaluation whose answer is no integer
Unparsed(ie) ==
    \E q \in 1..Len(v_in.evaluations[ie].evals) :
        ~Parses(thinking_answer_parser(v_in.evaluations[ie].evals[q]).answer)

(* C24: an evaluation answer that is no integer is a keep decision: in
   refilter_docs the document it belongs to is kept, and the call does not
   raise for lack of documents; in parse_eval_output the answer becomes
   "5" and nothing is raised. *)
C24_UnparsedMeansKeep ==
    /\ v_pc \in {"loop", "returned", "NoDocumentsAfterLLMEvalFiltering"} =>
         \A ie \in 1..v_ie : Unparsed(ie) => ie \in Range(filtered_docs)
    /\ v_pc = "NoDocumentsAfterLLMEvalFiltering" =>
         \A ie \in 1..v_ie : ~Unparsed(ie)
    /\ ( /\ v_pc \notin {"idle", "start"} /\ v_in.fn = "parse_eval_output"
         /\ strip(v_in.output) # ""
         /\ ~Parses(thinking_answer_parser(v_in.output).answer) )
       => (v_pc = "returned" /\ v_ret = "5")

(***************************************************************************)
(* score_function (src/WDoc/utils/embeddings.py, lines 80-93, and          *)
(* src/wdoc/utils/embeddings.py, lines 59-74): one call.  A distance is a  *)
(* multiple n of 1/Scale and a score is a multiple of 1/ScoreDen, so that  *)
(* both formulas are computed exactly.  The index is built with            *)
(* normalize_L2=True: its vectors have norm 1 and the distance faiss       *)
(* returns, the squared euclidean distance, lies between 0 and 4.          *)
(***************************************************************************)
Scale == 8
ScoreDen == 2 * Scale * Scale
\* the largest squared distance of two vectors of norm 1
MaxDistance == 4
Distances == 0..(MaxDistance * Scale)

\* WDoc, line 93: (1 - distance) ** 2
ScoreWDoc(n) == 2 * (Scale - n) * (Scale - n)

\* wdoc, lines 73-74: new = 1 - ((1 + distance) / 2)
ScorewDoc(n) == Scale * (2 * Scale - (Scale + n))

\* the score of distance n/Scale, in 1/ScoreDen
score_function(version, n) == IF version = "WDoc" THEN ScoreWDoc(n) ELSE ScorewDoc(n)

\* the relevance score of one search result
ScoreCall ==
    /\ sc_pc = "call"
    /\ sc_ret' = score_function(sc_in.version, sc_in.distance)
    /\ sc_pc' = "returned"
    /\ UNCHANGED <<sc_in, notScore>>

InitScore ==
    /\ SearchIdle /\ MergeIdle /\ PoolIdle /\ CostIdle /\ EmbedIdle /\ ExpireIdle
    /\ NsIdle /\ BatchIdle /\ EvalIdle /\ MetaIdle /\ CacheIdle
    /\ sc_pc = "call"
    /\ sc_in \in [version : {"WDoc", "wdoc"}, distance : Distances]
    /\ sc_ret = <<>>

NextScore == ScoreCall

SpecScore == InitScore /\ [][NextScore]_vars

(* C25: each score_function gives 1 at distance 0, never gives more for a
   larger distance than for a smaller one, and gives a value of [0,1] for
   every distance of an index of normalized vectors. *)
C25_ScoreInUnitRange ==
    sc_pc = "returned" =>
      /\ sc_in.distance = 0 => sc_ret = ScoreDen
      /\ \A m \in Distances :
           m <= sc_in.distance => score_function(sc_in.version, m) >= sc_ret
      /\ 0 <= sc_ret /\ sc_ret <= ScoreDen

\* the statements of the singleton-cluster step, and the assertion after
\* it, that can raise
SingletonErrors ==
    {"len(labels) == 2 (261)", "texts.index(t_closest) (262)",
     "len(labels) > 1 (267)", "len(lab_mask) > 1 (279)"}

(* C33: after the singleton-cluster step no cluster holds exactly one text
   and at least two clusters remain; neither the step nor the later
   assertion that every cluster has more than one text ever raises. *)
C33_NoSingletonCluster ==
    /\ b_pc = "pack" =>
          /\ \A lab \in Unique(cluster_labels) : CountOf(cluster_labels, lab) > 1
          /\ Cardinality(Unique(cluster_labels)) > 1
    /\ b_err \notin SingletonErrors

\* the positions of the buckets of one text, before lines 304-335
SingletonBuckets == {q \in 1..Len(buckets) : Len(buckets[q]) = 1}

(* C34: a bucket of one text is merged with a neighbour bucket (the next
   one for the first bucket, the previous one for the last, the closer one
   in between): the call returns, and the text is then in one bucket with
   a text of a bucket that was next to its own. *)
C34_SingletonBucketMerged ==
    [][(b_pc = "rebalance" /\ SingletonBuckets # {}) =>
          /\ b_pc' = "returned"
          /\ \A q \in SingletonBuckets :
               \E r \in 1..Len(buckets') :
                  /\ buckets[q][1] \in Range(buckets'[r])
                  /\ \E n \in {q - 1, q + 1} \cap (1..Len(buckets)) :
                        Range(buckets[n]) \cap Range(buckets'[r]) # {}]_vars

\* document i gives a work unit: it has a cached shard (loader pool), or it
\* is embedded in this run (saver pool)
HasWorkUnit(i) == pool = "saver" \/ Cached(i)

(* C36: a stop item is enqueued only after every work unit has been
   enqueued, nothing is ever enqueued behind a stop item, and a worker that
   has taken its stop item, and so emits "Stopped", has taken every work
   unit enqueued to it: its inbound queue is empty from then on. *)
C36_StoppedAfterAllWork ==
    /\ (\E w \in Workers : StopSent(w)) =>
          \A i \in 1..Len(docs) : HasWorkUnit(i) => sent[i] = 1
    /\ \A w \in Workers : \A i \in 1..Len(qin[w]) :
          qin[w][i].kind = "stop" => i = Len(qin[w])
    /\ \A w \in Workers :
          (w_pc[w] \in {"stopping", "done"} \/ Acked(w)) => qin[w] = <<>>

\* the first loader has merged the shards of two documents and has then
\* answered its stop item; both loaders have stopped
C36_Witness ==
    /\ pool = "loader"
    /\ \A w \in Workers : w_pc[w] = "done" /\ Acked(w)
    /\ sent[1] = 1 /\ sent[2] = 1
    /\ Len(w_db[1].ds) = 2
    /\ n_faults = 0

(* C37: with healthy workers, whatever the interleaving of the
   orchestrating thread and the loaders, no assertion of the shutdown
   fails, and once the outbound queues have been polled exactly one partial
   result per worker has been collected. *)
C37_ShutdownAssertionsHold ==
    pool = "loader" =>
        /\ d_err = "none"
        /\ d_pc \in {"join", "out_vals"} => Len(merged_dbs) = NbWorkers

(* C38: for every distribution of the cached shards over the loaders,
   loaders that received nothing and the case of no cached shard included,
   the merge of the collected partial results ends without error, with the
   union of the loaded shards, or with no index when nothing was loaded. *)
C38_MergeOfPartialResults ==
    LoadEnded =>
        /\ d_pc = "merged" /\ d_err = "none"
        /\ IF LoadedIds = {} THEN db.isNone
           ELSE ~db.isNone /\ Range(db.ds) = LoadedIds

\* the saver pool has stopped normally: every saver has answered "Stopped"
\* and load_embeddings is past line 559
SaversStopped ==
    /\ pool = "saver" /\ d_pc = "saved"
    /\ \A w \in Workers : w_pc[w] = "done"

(* C32: for every unit a saver takes, it writes one shard at the path named
   by the content hash of the document of that unit, and the shard is on
   disk when save_local has returned; once the saver pool has stopped
   normally the shard of every document embedded in this run is on disk. *)
C32_EveryEmbeddedDocSaved ==
    /\ [][\A w \in Workers :
            (pool = "saver" /\ TakesItem(w) /\ Head(qin[w]).kind = "work") =>
                /\ w_pc'[w] = "saving"
                /\ w_file'[w] = docs[Head(qin[w]).metadata]
                /\ files' = files]_vars
    /\ [][\A w \in Workers :
            (Writing(w) /\ w_pc'[w] = "run") =>
                files' = files \cup {w_file[w]}]_vars
    /\ [](SaversStopped => \A i \in 1..Len(docs) : docs[i] \in files)

\* the savers have stopped normally after two documents with different
\* content hashes were embedded, each saved by another saver
C32_Witness ==
    /\ SaversStopped
    /\ docs[1] # docs[2] /\ files = {docs[1], docs[2]}
    /\ out_vals = <<"Stopped", "Stopped">>
    /\ n_faults = 0

(***************************************************************************)
(* The loader pool on longer lists of documents, all of them cached, up to *)
(* the collection of the partial results; db.merge_from may fail in the    *)
(* first worker only                                                       *)
(***************************************************************************)
NDocsMore == NDocs + 2

\* the worker whose merge may raise ValueError
FirstWorker == 1

\* the lists of NDocsMore content hashes, up to the naming of the hashes
DocListsMore ==
    {s \in [1..NDocsMore -> 1..NDocsMore] :
        \A i \in 1..NDocsMore : s[i] <= MaxOf(SubSeq(s, 1, i - 1)) + 1}

\* lines 284-312, every document having its shard file in the cache
InitLoaders ==
    /\ SearchIdle /\ TaskIdle
    /\ pool = "loader"
    /\ docs \in DocListsMore
    /\ files = Range(docs)
    /\ list_of_files = files
    /\ to_embed = <<>>
    /\ db = None
    /\ sent = [i \in 1..NDocsMore |-> 0]
    /\ w_file = [w \in Workers |-> 0]
    /\ d_pc = "dispatch" /\ d_err = "none" /\ d_i = 1 /\ lq = 0
    /\ qin = [w \in Workers |-> <<>>]
    /\ qout = [w \in Workers |-> <<>>]
    /\ w_pc = [w \in Workers |-> "run"]
    /\ w_db = [w \in Workers |-> None]
    /\ merged_dbs = <<>> /\ failed_to_merge = <<>>
    /\ m_fault = "none" /\ m_in = <<>>
    /\ start_stopping_threads = 0 /\ out_vals = <<>> /\ log = {} /\ poll_tick = 0
    /\ n_faults = 0

NextLoaders ==
    \/ DispatchChoose \/ DispatchPut \/ DispatchEnd
    \/ StopPut \/ PollCheck \/ PollGet \/ PollEmpty
    \/ \E w \in Workers : LoaderStop(w) \/ LoaderStopped(w) \/ LoaderWork(w)
    \/ LoaderMergeError(FirstWorker)

SpecLoaders == InitLoaders /\ [][NextLoaders]_vars

(* C31: when db.merge_from has failed in a loader and the loader has
   deleted the files of that shard, the loader goes on with its loop: it
   keeps taking the items of its inbound queue up to the stop item, which
   it answers with its running shard and "Stopped"; its thread does not
   end before that. *)
C31_MergeErrorContinues ==
    "error when loading cache" \in log => w_pc[FirstWorker] # "dead"

(***************************************************************************)
(* faiss_loader, lines 575-617, and the metadata of the documents it loads *)
(***************************************************************************)
\* how many work units the thread is sent before the stop item
MaxUnits == 3
\* how many shard files there are
MaxShardFiles == 3

ShardFiles == 1..MaxShardFiles

\* the metadata pickled in the shard file of content hash h when it was saved
StoredMetadata(h) == [src |-> "file", hash |-> h, n |-> 0]

\* doc.metadata of line 324: the metadata of the n-th document of this run,
\* whose content hash is h
DocMetadata(h, n) == [src |-> "doc", hash |-> h, n |-> n]

\* the inbound queues: the units (fi, doc.metadata) of up to MaxUnits
\* documents in the order of their dispatch, then (False, None)
UnitQueues ==
    {[n \in 1..(Len(hs) + 1) |->
        IF n <= Len(hs)
        THEN [kind |-> "work", fi |-> hs[n], metadata |-> DocMetadata(hs[n], n)]
        ELSE [kind |-> "stop", fi |-> 0, metadata |-> DocMetadata(0, 0)]] :
     hs \in UNION {[1..m -> ShardFiles] : m \in 0..MaxUnits}}

\* lines 593-598: FAISS.load_local(fi, ...), a shard of one document whose
\* id is named by the file
load_local(fi) == <<[id |-> fi, metadata |-> StoredMetadata(fi)]>>

\* line 611: temp.docstore._dict[did].metadata = metadata
SetMetadata(temp, metadata) == <<[temp[1] EXCEPT !.metadata = metadata]>>

\* lines 585 and 591-617: one item that is a work unit
FaissLoaderWork ==
    /\ lm_pc = "get"
    /\ lm_qin # <<>> /\ Head(lm_qin).kind = "work"
    /\ lm_qin' = Tail(lm_qin)
    /\ LET temp == load_local(Head(lm_qin).fi)
           did == temp[1].id
       IN IF lm_db = <<>>
          THEN lm_db' = temp
          ELSE IF \E q \in 1..Len(lm_db) : lm_db[q].id = did
          THEN lm_db' = lm_db
          ELSE \E raised \in BOOLEAN :
                 lm_db' = IF raised THEN lm_db
                          ELSE lm_db \o SetMetadata(temp, Head(lm_qin).metadata)
    /\ UNCHANGED <<lm_pc, lm_qout, notMeta>>

\* lines 585-590: the stop item
FaissLoaderStop ==
    /\ lm_pc = "get"
    /\ lm_qin # <<>> /\ Head(lm_qin).kind = "stop"
    /\ lm_qin' = Tail(lm_qin)
    /\ lm_qout' = lm_qout \o <<DbVal(lm_db), StoppedVal>>
    /\ lm_pc' = "returned"
    /\ UNCHANGED <<lm_db, notMeta>>

InitMeta ==
    /\ SearchIdle /\ MergeIdle /\ PoolIdle /\ CostIdle /\ EmbedIdle /\ ExpireIdle
    /\ NsIdle /\ BatchIdle /\ EvalIdle /\ ScoreIdle /\ CacheIdle
    /\ lm_pc = "get"
    /\ lm_qin \in UnitQueues
    /\ lm_db = <<>> /\ lm_qout = <<>>

NextMeta == FaissLoaderWork \/ FaissLoaderStop

SpecMeta == InitMeta /\ [][NextMeta]_vars

(* C39: every document of the partial result of a loader carries the
   metadata passed with its work unit, the metadata of a document of this
   run, and not the metadata stored in the shard file; the first shard the
   loader receives included. *)
C39_MetadataOfWorkUnit ==
    \A q \in 1..Len(lm_db) :
        /\ lm_db[q].metadata.src = "doc"
        /\ lm_db[q].metadata.hash = lm_db[q].id

(***************************************************************************)
(* SQLiteCacheFixed, src/wdoc/utils/customs/fix_llm_caching.py.  Strings    *)
(* are sequences of characters.                                            *)
(***************************************************************************)
\* how many calls are made on one cache
MaxCalls == 3

\* the prompts and the llm_strings: the empty string, a, and a", "a
Strs == {<<>>, <<"a">>, <<"a", "\"", ",", " ", "\"", "a">>}

\* return_val: Any
ReturnVals == {"v1", "v2"}

\* None of Python
NoneVal == "None"

\* a string written into the key as it is
EscapeNothing(text) == text

\* json.dumps of a string, between its quotes: " and \ are written with a
\* backslash before them
RECURSIVE Escape(_)
Escape(text) ==
    IF text = <<>> THEN <<>>
    ELSE (IF Head(text) \in {"\"", "\\"} THEN <<"\\", Head(text)>> ELSE <<Head(text)>>)
           \o Escape(Tail(text))

\* lines 34 and 44: json.dumps((prompt, llm_string)), the JSON list of the
\* two strings
dumps(prompt, llm_string) ==
    <<"[", "\"">> \o Escape(prompt) \o <<"\"", ",", " ", "\"">>
        \o Escape(llm_string) \o <<"\"", "]">>

\* self.sd[key]: the value stored under key, or KeyError
GetItem(d, key) ==
    IF key \in DOMAIN d THEN [exc |-> "none", val |-> d[key]]
    ELSE [exc |-> "KeyError", val |-> NoneVal]

\* self.sd[key] = return_val
SetItem(d, key, val) ==
    [x \in DOMAIN d \cup {key} |-> IF x = key THEN val ELSE d[x]]

\* lines 32-39: what lookup returns on the store d
LookupValue(d, prompt, llm_string) ==
    LET r == GetItem(d, dumps(prompt, llm_string))
    IN IF r.exc = "KeyError" THEN NoneVal ELSE r.val

Call(op, prompt, llm_string, val) ==
    [op |-> op, prompt |-> prompt, llm_string |-> llm_string, val |-> val]

\* lines 32-39 (lookup) and 51-53 (alookup, which returns self.lookup(...))
lookup(op) ==
    /\ lc_n < MaxCalls
    /\ \E prompt \in Strs, llm_string \in Strs :
         /\ lc_call' = Call(op, prompt, llm_string, NoneVal)
         /\ lc_ret' = LookupValue(sd, prompt, llm_string)
    /\ lc_n' = lc_n + 1
    /\ UNCHANGED <<sd, notCache>>

\* lines 42-45 (update) and 55-59 (aupdate, which calls self.update(...))
update(op) ==
    /\ lc_n < MaxCalls
    /\ \E prompt \in Strs, llm_string \in Strs, return_val \in ReturnVals :
         /\ lc_call' = Call(op, prompt, llm_string, return_val)
         /\ sd' = SetItem(sd, dumps(prompt, llm_string), return_val)
    /\ lc_ret' = NoneVal
    /\ lc_n' = lc_n + 1
    /\ UNCHANGED notCache

\* lines 21-29: a cache on a new database
InitCache ==
    /\ SearchIdle /\ MergeIdle /\ PoolIdle /\ CostIdle /\ EmbedIdle /\ ExpireIdle
    /\ NsIdle /\ BatchIdle /\ EvalIdle /\ ScoreIdle /\ MetaIdle
    /\ sd = <<>> /\ lc_call = <<>> /\ lc_ret = NoneVal /\ lc_n = 0

NextCache ==
    \/ lookup("lookup") \/ update("update")
    \/ lookup("alookup") \/ update("aupdate")

SpecCache == InitCache /\ [][NextCache]_vars

\* the string a", "a
Tricky == <<"a", "\"", ",", " ", "\"", "a">>

\* this step is a call of one of the operations ops
Calls(ops) == lc_n' = lc_n + 1 /\ lc_call'.op \in ops

(* C40: on a new cache lookup returns None for every pair; an update of
   (prompt, llm_string) makes lookup return its value for that pair and
   changes the result for no other pair; a lookup changes nothing and
   returns what the store holds for its pair; so lookup returns the value
   of the latest update of the pair, and alookup and aupdate do what lookup
   and update do. *)
C40_LookupReturnsLatestUpdate ==
    /\ [](lc_n = 0 => \A x, y \in Strs : LookupValue(sd, x, y) = NoneVal)
    /\ [][Calls({"update", "aupdate"}) =>
            /\ lc_ret' = NoneVal
            /\ \A x, y \in Strs :
                 LookupValue(sd', x, y) =
                    IF x = lc_call'.prompt /\ y = lc_call'.llm_string
                    THEN lc_call'.val
                    ELSE LookupValue(sd, x, y)]_vars
    /\ [][Calls({"lookup", "alookup"}) =>
            /\ sd' = sd
            /\ lc_ret' = LookupValue(sd, lc_call'.prompt, lc_call'.llm_string)]_vars

\* two pairs whose strings hold quotes were updated with different values,
\* and the lookup of the first pair has returned the value of its update
C40_Witness ==
    /\ lc_n = 3
    /\ lc_call = Call("alookup", <<"a">>, Tricky, NoneVal)
    /\ lc_ret = "v1"
    /\ LookupValue(sd, Tricky, <<"a">>) = "v2"

====
